---- MODULE Spec2Model ----
(***************************************************************************)
(* A model of github.com/gostdlib/concurrency.                             *)
(*                                                                         *)
(* Part 1: the staged pipeline runtime (pipelines/stagedpipe).             *)
(* Producers call RequestGroup.Submit, which writes to the shared input    *)
(* channel; the runner goroutines take requests from it, drive them        *)
(* through the stages of the state machine (processReq) and write them to  *)
(* the shared output channel; the demux routes them by group number to the *)
(* group's channel, where the group's forwarder goroutine passes them on   *)
(* to the channel returned by Out().                                       *)
(*                                                                         *)
(* Goroutines are processes with a program counter (pc).  A step of a      *)
(* process is one operation on shared state (a channel operation, an       *)
(* atomic counter, a WaitGroup) together with the local computation that   *)
(* follows it.                                                             *)
(***************************************************************************)
EXTENDS Integers, Sequences, FiniteSets, TLC

(***************************************************************************)
(* Bounds of the model.                                                    *)
(***************************************************************************)
\* Submit calls made in one behaviour of Spec.
MaxSubmits == 2
\* RequestGroups created in one behaviour of Spec.
MaxGroups == 2
\* Goroutines that call Submit in Spec.
NumProducers == 2
\* Cancellable contexts the submitted requests may carry in Spec, beside
\* context.Background().
NumCtx == 1
\* The "num" argument of New (parallel pipelines) in Spec.
NumPipelines == 2
\* Submit calls made in one behaviour of DagSpec.
DagSubmits == 2
\* Submit calls made in one behaviour of StallSpec.
StallSubmits == 8
\* RequestGroups created in one behaviour of StallSpec.
StallGroups == 2
\* Submit calls on groups other than the first in one behaviour of StallSpec.
StallOthers == 1
\* Submit calls made in one behaviour of CloseSpec.
CloseSubmits == 2
\* The largest "size" argument of the pools' New in PoolSpec.
PoolSize == 1
\* Jobs submitted in one behaviour of PoolSpec.
PoolJobs == 3
\* Goroutines that call Pool.Submit in PoolSpec.
PoolSubmitters == 2
\* Goroutines that call Push in QueueSpec.
QueueProducers == 2
\* Push calls made in one behaviour of QueueSpec.
QueuePushes == 3
\* The largest "size" argument of the queue's New in QueueSpec (0: no limit).
QueueSize == 2
\* Functions passed to Go in GroupSpec.
GroupFuncs == 2
\* The largest size of the Pool behind the Group in GroupSpec.
GroupPoolSize == 1
\* Pools created in RegSpec.
RegPools == 3
\* Runners, requests and the largest run time in StatSpec.
StatRunners == 2
StatReqs == 3
StatMaxTime == 2

\* Submit calls of ResubmitSpec.
ResubmitSubmits == 2

\* Goroutines using one RWValue, the calls each makes, and the largest value stored.
RWCallers == 2
RWOps == 2
RWMaxVal == 1

\* Submit calls of PreSpec.
PreSubmits == 4

(***************************************************************************)
(* Program constants.                                                      *)
(***************************************************************************)
\* make(chan Request[T], 1): in, out, RequestGroup.out and RequestGroup.user.
ChanCap == 1

Nil == "nil"
NoReq == [uid |-> -1]
\* Request.seenStages == nil
NoSeen == <<"nil">>

\* Error values of Request.Err: req.Ctx.Err(), and Error{Type: cyclicErr}.
ErrCtx == "context canceled"
ErrCyclic == "cyclic"
\* The errors the stage Start and the pre-processor check of StepSM set.
ErrStage == "stage error"
ErrPre == "pre-processor error"

IsErrCyclic(err) == err # Nil /\ err = ErrCyclic

VARIABLES
    cfg,             \* what New was called with (constant in a behaviour), and the run's limits
    in,              \* Pipelines.in: the shared input channel's buffer
    inClosed,        \* close(p.in) was executed
    out,             \* Pipelines.out: the shared output channel's buffer
    outClosed,       \* close(p.out) was executed
    requestGroupNum, \* Pipelines.requestGroupNum
    receivers,       \* the demux's receivers: group number -> RequestGroup
    pwg,             \* Pipelines.wg: its counter
    rg,              \* the RequestGroup objects: id, itemNum, wg, out, user
    prod,            \* the goroutines calling Submit: pc and the request in hand
    submitted,       \* number of Submit calls begun
    results,         \* the Submit calls in the order they began: group, item number,
                     \* context and what the call returned ("pending" while it runs)
    cancelled,       \* the contexts that are cancelled
    wk,              \* the runner goroutines: pc, request in hand, current stage
    running,         \* stats.running
    completed,       \* stats.completed
    dmx,             \* the demux goroutine: pc and the request in hand
    fwd,             \* the forwarder goroutine of each RequestGroup (and its InOrder)
    got,             \* what the consumer of each group received from Out()
    closer,          \* the goroutine Pipelines.Close starts
    smClosed,        \* number of calls of StateMachine.Close
    fatal            \* log.Fatalf (the demux error callback) or a panic ended the process

pipeVars == <<cfg, in, inClosed, out, outClosed, requestGroupNum, receivers, pwg, rg,
              prod, submitted, results, cancelled, wk, running, completed, dmx, fwd,
              got, closer, smClosed, fatal>>

(***************************************************************************)
(* Part 2: the goroutine pools (goroutines/limited, goroutines/pooled).    *)
(***************************************************************************)
VARIABLES
    pool,            \* the Pool: its kind and size, p.queue, p.wg, p.running
    sub,             \* the goroutines calling Pool.Submit: pc and the job submitted
    rn,              \* the runner goroutines of a pooled Pool: pc and the job in hand
    jobs,            \* the jobs: options, what Submit returned, the goroutine started
                     \* for the job, how often the job function started and returned
    waiter           \* the goroutine calling Pool.Wait or Pool.Close

poolVars == <<pool, sub, rn, jobs, waiter>>

(***************************************************************************)
(* Part 3: the queue (pipelines/stagedpipe/internal/queue).                *)
(***************************************************************************)
VARIABLES
    qu,              \* the Queue: the nodes, head, tail, closed, the tokens in limit
    qp,              \* the goroutines calling Push: pc, the node n, the tail read
    qc               \* the goroutine calling Pop: pc, h, n, and what Pop returned

queueVars == <<qu, qp, qc>>

(***************************************************************************)
(* Part 4: the wait group (prim, Group).                                   *)
(***************************************************************************)
VARIABLES
    grp,             \* the Group, its context and its Pool
    gf,              \* the functions passed to Go: pc, outcome, applyErr's locals
    gc               \* the goroutine calling Go and Wait, and the Pool's runners

groupVars == <<grp, gf, gc>>

(***************************************************************************)
(* Part 5: the registry of pools (goroutines/internal/register).           *)
(***************************************************************************)
VARIABLES
    reg,             \* the registry map and the mutex mu
    rp,              \* the pools that New creates: pc, the base name, p.name
    re               \* an enumeration by Pools(): the goroutine, the channel, the caller

regVars == <<reg, rp, re>>

(***************************************************************************)
(* Part 6: the statistics of the run times (stats, toStats).               *)
(***************************************************************************)
VARIABLES
    st,              \* the counters of stats
    sw,              \* the runners in processReq and calcExitStats
    so               \* the observer in toStats and its snapshot

statVars == <<st, sw, so>>

(***************************************************************************)
(* Part 7: the value with one writer at a time (prim/atomics, RWValue).    *)
(***************************************************************************)
VARIABLES
    rwv,             \* the RWValue: the pointer v and the mutex mu
    rwc              \* the goroutines calling Load, Store and LoadReplace

rwVars == <<rwv, rwc>>

\* The variables of the parts other than the one named.
nonPipeVars == <<poolVars, queueVars, groupVars, regVars, statVars, rwVars>>
nonPoolVars == <<pipeVars, queueVars, groupVars, regVars, statVars, rwVars>>
nonQueueVars == <<pipeVars, poolVars, groupVars, regVars, statVars, rwVars>>
nonGroupVars == <<pipeVars, poolVars, queueVars, regVars, statVars, rwVars>>
nonRegVars == <<pipeVars, poolVars, queueVars, groupVars, statVars, rwVars>>
nonStatVars == <<pipeVars, poolVars, queueVars, groupVars, regVars, rwVars>>

nonRWVars == <<pipeVars, poolVars, queueVars, groupVars, regVars, statVars>>

vars == <<pipeVars, poolVars, queueVars, groupVars, regVars, statVars, rwVars>>

(***************************************************************************)
(* Helpers.                                                                *)
(***************************************************************************)
Range(s) == {s[i] : i \in DOMAIN s}

Min(S) == CHOOSE x \in S : \A y \in S : x <= y

\* Mutant: a channel without a limit on its buffer.
CanSendAlways(ch) == TRUE

\* A send on a buffered channel can proceed.
CanSend(ch) == Len(ch) < ChanCap

\* A receive from a channel can proceed with a value.
CanRecv(ch) == Len(ch) > 0

(***************************************************************************)
(* The state machines.                                                     *)
(***************************************************************************)
\* numStages: the public methods of the state machine with the Stage signature.
numStages(sm) ==
    CASE sm = "DAGSM" -> 3
      [] sm = "OrderedSM" -> 1
      [] sm = "StepSM" -> 2

\* seenStages.seen: (found, the list afterwards).
seen(s, stage) ==
    IF stage \in Range(s) THEN <<TRUE, s>> ELSE <<FALSE, Append(s, stage)>>

\* Mutant: resetNext leaves Next as it is.
resetNextKeeps(req) == req

\* resetNext, the pre-processor New always installs.
resetNext(req) == [req EXCEPT !.Next = Nil]

\* DAGSM of stagedpipe_test.go.
DAGSMStage(stage, req) ==
    CASE stage = "Start" ->
            IF req.Num % 2 = 0
            THEN [req EXCEPT !.Next = "RouteBackToStart"]
            ELSE [req EXCEPT !.Next = "End"]
      [] stage = "RouteBackToStart" -> [req EXCEPT !.Next = "Start"]
      [] stage = "End" -> [req EXCEPT !.Next = Nil]

\* OrderedSM: its only stage, Start.
OrderedSMStage(stage, req, ctxErr) ==
    IF ctxErr THEN [req EXCEPT !.Err = ErrCtx] ELSE [req EXCEPT !.Next = Nil]

\* StepSM, a state machine of two stages in the manner of SM of
\* stagedpipe_test.go, whose Start rejects some requests: Start selects Last, and
\* for every third request also sets Err; Last returns the request as it got it,
\* without assigning Next.
StepSMStage(stage, req) ==
    CASE stage = "Start" ->
            IF req.Num % 3 = 1
            THEN [req EXCEPT !.Next = "Last", !.Err = ErrStage]
            ELSE [req EXCEPT !.Next = "Last"]
      [] stage = "Last" -> req

\* The pre-processors given with the PreProcessors option.  Each notes in the
\* request that it ran, at which stage, and the Next it found; check rejects
\* every third request before the stage Last.
UserPreProcessor(name, req, stage) ==
    LET r == [req EXCEPT !.pre = Append(@, <<name, stage, req.Next>>)]
    IN  IF name = "check" /\ stage = "Last" /\ req.Num % 3 = 2
        THEN [r EXCEPT !.Err = ErrPre]
        ELSE r

\* Mutant: an error does not end the request.
ErrEndsNever(req) == FALSE

\* if r.Err != nil { return r }
ErrEnds(req) == req.Err # Nil

\* for _, pp := range p.preProcessors { r = pp(r); if r.Err != nil { return r } }
\* where p.preProcessors is resetNext followed by those of the option.
RECURSIVE ApplyPreProcessors(_, _, _)
ApplyPreProcessors(pps, req, stage) ==
    IF pps = <<>>
    THEN req
    ELSE LET r == IF Head(pps) = "resetNext"
                  THEN resetNext(req)
                  ELSE UserPreProcessor(Head(pps), req, stage)
         IN  IF ErrEnds(r) THEN r ELSE ApplyPreProcessors(Tail(pps), r, stage)

\* stage(r): the call of the current stage by runner w.  The request records
\* which stages were invoked for it, whether one was invoked twice, and by whom.
CallStage(sm, stage, req, ctxErr, w) ==
    LET r == CASE sm = "DAGSM" -> DAGSMStage(stage, req)
               [] sm = "OrderedSM" -> OrderedSMStage(stage, req, ctxErr)
               [] sm = "StepSM" -> StepSMStage(stage, req)
    IN  [r EXCEPT !.calls = @ \cup {stage},
                  !.repeated = @ \/ stage \in req.calls,
                  !.by = @ \cup {w}]


(***************************************************************************)
(* The state after New(name, num, sm, options...) returned: both channels  *)
(* are empty, num pipelines of numStages(sm) runner goroutines each and    *)
(* the demux goroutine wait for input, and no RequestGroup exists yet.     *)
(***************************************************************************)
Workers == 1 .. (cfg.num * numStages(cfg.sm))
Producers == 1 .. cfg.producers
Handles == 1 .. cfg.groups
\* Context 0 is context.Background(), which is never cancelled.
Ctxs == 0 .. cfg.ctxs
Cancellable == 1 .. cfg.ctxs

New(c) ==
    /\ cfg = c
    /\ in = <<>>
    /\ inClosed = FALSE
    /\ out = <<>>
    /\ outClosed = FALSE
    /\ requestGroupNum = 0
    /\ receivers = <<>>
    /\ pwg = 0
    /\ rg = [h \in 1 .. c.groups |->
                [state |-> "none", id |-> 0, itemNum |-> 0, wg |-> 0,
                 out |-> <<>>, outClosed |-> FALSE,
                 user |-> <<>>, userClosed |-> FALSE]]
    /\ prod = [p \in 1 .. c.producers |-> [pc |-> "idle", req |-> NoReq]]
    /\ submitted = 0
    /\ results = <<>>
    /\ cancelled = {}
    /\ wk = [w \in 1 .. (c.num * numStages(c.sm)) |->
                [pc |-> "recv", req |-> NoReq, stage |-> Nil]]
    /\ running = 0
    /\ completed = 0
    /\ dmx = [pc |-> "recv", req |-> NoReq]
    /\ fwd = [h \in 1 .. c.groups |->
                [pc |-> "none", req |-> NoReq, held |-> {}, counter |-> 0]]
    /\ got = [h \in 1 .. c.groups |-> <<>>]
    /\ closer = "none"
    /\ smClosed = 0
    /\ fatal = FALSE

(***************************************************************************)
(* Pipelines.NewRequestGroup.  requestGroupNum.Add(1) is one atomic        *)
(* operation; the receiver is registered before the group is returned.     *)
(* The RequestGroup objects are taken in the order of their model index.   *)
(***************************************************************************)
\* Mutant: the counter is read and not incremented.
AtomicLoad(v) == v

\* atomic.Uint64.Add(1): the new value.
AtomicAdd1(v) == v + 1

\* Mutant: the id is read with Load(), the counter is not incremented.
NewRequestGroupIdLoad(counter) == counter

\* id := p.requestGroupNum.Add(1), given the counter before the call.
NewRequestGroupId(counter) == AtomicAdd1(counter)

NewRequestGroup(h) ==
    /\ ~fatal
    /\ rg[h].state = "none"
    /\ \A k \in Handles : k < h => rg[k].state # "none"
    /\ LET id == NewRequestGroupId(requestGroupNum) IN
        /\ requestGroupNum' = id
        /\ rg' = [rg EXCEPT ![h].state = "open", ![h].id = id]
        /\ receivers' = [k \in DOMAIN receivers \cup {id} |->
                            IF k = id THEN h ELSE receivers[k]]
    /\ fwd' = [fwd EXCEPT ![h].pc = "recv"]
    /\ UNCHANGED <<nonPipeVars, cfg, in, inClosed, out, outClosed, pwg, prod, submitted, results,
                   cancelled, wk, running, completed, dmx, got, closer, smClosed, fatal>>

(***************************************************************************)
(* RequestGroup.Submit.  The part up to the select statement is one step   *)
(* (the group number and the item number are assigned, both WaitGroups are *)
(* incremented); the select is the second step, and takes either case that *)
(* is ready.  Callers obey the documented contract: no Submit on a group   *)
(* after its Close, none after Pipelines.Close.  The request's data is its *)
(* submission number, as in TestDAG and TestOrdered.  A behaviour has at   *)
(* most cfg.submits Submit calls, at most cfg.others of them on groups     *)
(* other than the first.                                                   *)
(***************************************************************************)
\* Mutant: the "- 1" is missing, the numbering starts at 1.
SubmitItemNumFromOne(counter) == AtomicAdd1(counter)

\* req.itemNum = r.itemNum.Add(1) - 1, given the counter before the call.
SubmitItemNum(counter) == AtomicAdd1(counter) - 1

SubmitBegin(p, h, c) ==
    /\ ~fatal
    /\ prod[p].pc = "idle"
    /\ \A q \in Producers : q < p => prod[q].pc # "idle"
    /\ rg[h].state = "open"
    /\ ~inClosed
    /\ submitted < cfg.submits
    /\ h = 1 \/ Cardinality({i \in DOMAIN results : results[i].h # 1}) < cfg.others
    /\ \E s \in cfg.prior :
        LET req == [uid |-> submitted, h |-> h, Ctx |-> c, Num |-> submitted,
                    Err |-> Nil, Next |-> Nil, seenStages |-> s,
                    groupNum |-> rg[h].id, itemNum |-> SubmitItemNum(rg[h].itemNum),
                    calls |-> {}, repeated |-> FALSE, by |-> {}, waited |-> FALSE,
                    pre |-> <<>>]
        IN  prod' = [prod EXCEPT ![p] = [pc |-> "select", req |-> req]]
    /\ rg' = [rg EXCEPT ![h].itemNum = AtomicAdd1(@), ![h].wg = @ + 1]
    /\ pwg' = pwg + 1
    /\ submitted' = submitted + 1
    /\ results' = Append(results, [h |-> h, itemNum |-> SubmitItemNum(rg[h].itemNum),
                                   Ctx |-> c, res |-> "pending"])
    /\ UNCHANGED <<nonPipeVars, cfg, in, inClosed, out, outClosed, requestGroupNum, receivers,
                   cancelled, wk, running, completed, dmx, fwd, got, closer, smClosed,
                   fatal>>

\* case r.p.in <- req: return nil
SubmitSend(p) ==
    /\ ~fatal
    /\ prod[p].pc = "select"
    /\ CanSend(in)
    /\ in' = Append(in, prod[p].req)
    /\ results' = [results EXCEPT ![prod[p].req.uid + 1].res = Nil]
    /\ prod' = [prod EXCEPT ![p] = [pc |-> "idle", req |-> NoReq]]
    /\ UNCHANGED <<nonPipeVars, cfg, inClosed, out, outClosed, requestGroupNum, receivers, pwg, rg,
                   submitted, cancelled, wk, running, completed, dmx, fwd, got, closer,
                   smClosed, fatal>>

\* Mutant: the context branch of Submit returns without the two Done calls.
SubmitCancelledKeepsCount(p) ==
    /\ ~fatal
    /\ prod[p].pc = "select"
    /\ prod[p].req.Ctx \in cancelled
    /\ results' = [results EXCEPT ![prod[p].req.uid + 1].res = ErrCtx]
    /\ prod' = [prod EXCEPT ![p] = [pc |-> "idle", req |-> NoReq]]
    /\ UNCHANGED <<nonPipeVars, cfg, in, inClosed, out, outClosed, requestGroupNum, receivers,
                   pwg, rg, submitted, cancelled, wk, running, completed, dmx, fwd, got,
                   closer, smClosed, fatal>>

\* case <-req.Ctx.Done(): both WaitGroups are decremented, return req.Ctx.Err()
SubmitCancelled(p) ==
    /\ ~fatal
    /\ prod[p].pc = "select"
    /\ prod[p].req.Ctx \in cancelled
    /\ pwg' = pwg - 1
    /\ rg' = [rg EXCEPT ![prod[p].req.h].wg = @ - 1]
    /\ results' = [results EXCEPT ![prod[p].req.uid + 1].res = ErrCtx]
    /\ prod' = [prod EXCEPT ![p] = [pc |-> "idle", req |-> NoReq]]
    /\ UNCHANGED <<nonPipeVars, cfg, in, inClosed, out, outClosed, requestGroupNum, receivers,
                   submitted, cancelled, wk, running, completed, dmx, fwd, got, closer,
                   smClosed, fatal>>

\* The owner of a context cancels it.
Cancel(c) ==
    /\ ~fatal
    /\ c \notin cancelled
    /\ cancelled' = cancelled \cup {c}
    /\ UNCHANGED <<nonPipeVars, cfg, in, inClosed, out, outClosed, requestGroupNum, receivers, pwg,
                   rg, prod, submitted, results, wk, running, completed, dmx, fwd, got,
                   closer, smClosed, fatal>>


(***************************************************************************)
(* pipeline.runner and pipeline.processReq.  A runner is at                *)
(*   "recv"  for r := range p.in                                           *)
(*   "iter"  the top of processReq's loop, with the current stage          *)
(*   "stage" the call stage(r), after the pre-processors ran               *)
(*   "exit1" calcExitStats: stats.running.Add(-1)                          *)
(*   "exit2" calcExitStats: stats.completed.Add(1)                         *)
(*   "send"  p.out <- r                                                    *)
(*   "done"  the range loop ended: p.in is closed and empty                *)
(* The runners are interchangeable while they wait at "recv", so a request *)
(* is received by the waiting runner of least index.  The DelayWarning     *)
(* ticker only logs and is left out.                                       *)
(***************************************************************************)
\* Mutant: a receive that leaves the value in the channel.
ChanRecvPeek(ch) == <<Head(ch), ch>>

\* for r := range p.in: the value received, and what stays in the channel.
ChanRecv(ch) == <<Head(ch), Tail(ch)>>

\* Mutant: the list of seen stages is never set up.
processReqEntryNoList(req) == req

\* Mutant: the list of seen stages is set up whether or not the DAG option is set.
processReqEntryAlways(req) == [req EXCEPT !.seenStages = <<>>]

\* processReq up to its loop: with the DAG option the request gets an empty list
\* from seenStagesPool (Get().reset()); otherwise its seenStages field is left as
\* it was submitted.  The first stage is sm.Start.
processReqEntry(req) ==
    IF cfg.ss THEN [req EXCEPT !.seenStages = <<>>] ELSE req

RunnerRecv(w) ==
    /\ ~fatal
    /\ wk[w].pc = "recv"
    /\ \A v \in Workers : v < w => wk[v].pc # "recv"
    /\ CanRecv(in)
    /\ in' = ChanRecv(in)[2]
    /\ wk' = [wk EXCEPT ![w] = [pc |-> "iter", req |-> processReqEntry(ChanRecv(in)[1]),
                                stage |-> "Start"]]
    /\ running' = running + 1
    /\ UNCHANGED <<nonPipeVars, cfg, inClosed, out, outClosed, requestGroupNum, receivers, pwg, rg,
                   prod, submitted, results, cancelled, completed, dmx, fwd, got, closer,
                   smClosed, fatal>>

RunnerDone(w) ==
    /\ ~fatal
    /\ wk[w].pc = "recv"
    /\ \A v \in Workers : v < w => wk[v].pc # "recv"
    /\ ~CanRecv(in)
    /\ inClosed
    /\ wk' = [wk EXCEPT ![w].pc = "done"]
    /\ UNCHANGED <<nonPipeVars, cfg, in, inClosed, out, outClosed, requestGroupNum, receivers, pwg,
                   rg, prod, submitted, results, cancelled, running, completed, dmx, fwd,
                   got, closer, smClosed, fatal>>

\* One iteration of processReq's loop after the context check: the cycle check
\* (made when r.seenStages is not nil) and the pre-processors.
\* The result is (the request, whether the loop goes on to call the stage).
processReqPre(pre, req, stage) ==
    IF req.seenStages # NoSeen /\ seen(req.seenStages, stage)[1]
    THEN <<[req EXCEPT !.Err = ErrCyclic], FALSE>>
    ELSE LET r1 == IF req.seenStages # NoSeen
                   THEN [req EXCEPT !.seenStages = seen(req.seenStages, stage)[2]]
                   ELSE req
             r2 == ApplyPreProcessors(<<"resetNext">> \o pre, r1, stage)
         IN  <<r2, ~ErrEnds(r2)>>

\* The same for the pipeline of the model, with the pre-processors of its options.
processReqChecks(req, stage) == processReqPre(cfg.pre, req, stage)

\* Mutant: the context check is missing.
processReqIterNoCtx(req, stage, ctxErr) == processReqChecks(req, stage)

\* One iteration of processReq's loop up to the stage call, beginning with the
\* context check: if r.Ctx.Err() != nil { r.Err = r.Ctx.Err(); return r }.
processReqIter(req, stage, ctxErr) ==
    IF ctxErr
    THEN <<[req EXCEPT !.Err = ErrCtx], FALSE>>
    ELSE processReqChecks(req, stage)

\* processReq's loop as a function of the request and the stage it begins with,
\* the context not being cancelled and no pre-processor given with the options:
\* the value that `return r` hands back.
RECURSIVE processReqLoop(_, _, _)
processReqLoop(sm, req, stage) ==
    LET it == processReqPre(<<>>, req, stage)
    IN  IF ~it[2]
        THEN it[1]
        ELSE LET r == CallStage(sm, stage, it[1], FALSE, 0)
             IN  IF ErrEnds(r) \/ r.Next = Nil
                 THEN r
                 ELSE processReqLoop(sm, r, r.Next)

\* processReq of a pipeline with the DAG option.  The function's result is not
\* named, so `return r` copies r before the deferred function runs: the deferred
\* r.seenStages = nil changes the local r only, and the Request that reaches
\* Out() still carries the list of the stages it went through.
processReq(sm, req) == processReqLoop(sm, [req EXCEPT !.seenStages = <<>>], "Start")

\* A Request value as the caller builds it, all unexported fields zero.
FreshRequest(num) ==
    [uid |-> num, h |-> 1, Ctx |-> 0, Num |-> num, Err |-> Nil, Next |-> Nil,
     seenStages |-> NoSeen, groupNum |-> 0, itemNum |-> 0,
     calls |-> {}, repeated |-> FALSE, by |-> {}, waited |-> FALSE,
                    pre |-> <<>>]

\* The seenStages fields a submitted Request value can carry: nil when the
\* caller built it, and what a pipeline with the DAG option over the same state
\* machine left in it when the caller received it from Out().
PriorHistories(sm) ==
    {NoSeen} \cup {processReq(sm, FreshRequest(n)).seenStages : n \in 0 .. 1}

RunnerIter(w) ==
    /\ ~fatal
    /\ wk[w].pc = "iter"
    /\ LET res == processReqIter(wk[w].req, wk[w].stage, wk[w].req.Ctx \in cancelled)
       IN  wk' = [wk EXCEPT ![w].req = res[1],
                            ![w].pc = IF res[2] THEN "stage" ELSE "exit1"]
    /\ UNCHANGED <<nonPipeVars, cfg, in, inClosed, out, outClosed, requestGroupNum, receivers, pwg,
                   rg, prod, submitted, results, cancelled, running, completed, dmx, fwd,
                   got, closer, smClosed, fatal>>

\* r = stage(r), then: an error ends the request, stage = r.Next, nil ends it.
RunnerStage(w) ==
    /\ ~fatal
    /\ wk[w].pc = "stage"
    /\ LET r == CallStage(cfg.sm, wk[w].stage, wk[w].req, wk[w].req.Ctx \in cancelled, w)
       IN  wk' = [wk EXCEPT ![w].req = r,
                            ![w].stage = IF ErrEnds(r) THEN @ ELSE r.Next,
                            ![w].pc = IF ErrEnds(r) \/ r.Next = Nil
                                      THEN "exit1" ELSE "iter"]
    /\ UNCHANGED <<nonPipeVars, cfg, in, inClosed, out, outClosed, requestGroupNum, receivers, pwg,
                   rg, prod, submitted, results, cancelled, running, completed, dmx, fwd,
                   got, closer, smClosed, fatal>>

\* calcExitStats: p.stats.running.Add(-1)
RunnerExitRunning(w) ==
    /\ ~fatal
    /\ wk[w].pc = "exit1"
    /\ running' = running - 1
    /\ wk' = [wk EXCEPT ![w].pc = "exit2"]
    /\ UNCHANGED <<nonPipeVars, cfg, in, inClosed, out, outClosed, requestGroupNum, receivers, pwg,
                   rg, prod, submitted, results, cancelled, completed, dmx, fwd, got,
                   closer, smClosed, fatal>>

\* calcExitStats: p.stats.completed.Add(1)
RunnerExitCompleted(w) ==
    /\ ~fatal
    /\ wk[w].pc = "exit2"
    /\ completed' = completed + 1
    /\ wk' = [wk EXCEPT ![w].pc = "send"]
    /\ UNCHANGED <<nonPipeVars, cfg, in, inClosed, out, outClosed, requestGroupNum, receivers, pwg,
                   rg, prod, submitted, results, cancelled, running, dmx, fwd, got,
                   closer, smClosed, fatal>>

\* p.out <- r
RunnerSend(w) ==
    /\ ~fatal
    /\ wk[w].pc = "send"
    /\ CanSend(out)
    /\ out' = Append(out, wk[w].req)
    /\ wk' = [wk EXCEPT ![w] = [pc |-> "recv", req |-> NoReq, stage |-> Nil]]
    /\ UNCHANGED <<nonPipeVars, cfg, in, inClosed, outClosed, requestGroupNum, receivers, pwg, rg,
                   prod, submitted, results, cancelled, running, completed, dmx, fwd,
                   got, closer, smClosed, fatal>>


(***************************************************************************)
(* The demux (github.com/johnsiilver/dynamics/demux, a dependency whose    *)
(* source is not part of the repository): one goroutine reads p.out and    *)
(* sends each request on the channel registered for its group number; a    *)
(* request with an unregistered group number goes to the error callback    *)
(* given to demux.New, which calls log.Fatalf.                             *)
(***************************************************************************)
\* The key function given to demux.New.
demuxKey(req) == req.groupNum

DemuxRecv ==
    /\ ~fatal
    /\ dmx.pc = "recv"
    /\ CanRecv(out)
    /\ out' = ChanRecv(out)[2]
    /\ IF demuxKey(ChanRecv(out)[1]) \in DOMAIN receivers
       THEN /\ dmx' = [pc |-> "send", req |-> ChanRecv(out)[1]]
            /\ fatal' = fatal
       ELSE /\ dmx' = dmx
            /\ fatal' = TRUE
    /\ UNCHANGED <<nonPipeVars, cfg, in, inClosed, outClosed, requestGroupNum, receivers, pwg, rg,
                   prod, submitted, results, cancelled, wk, running, completed, fwd, got,
                   closer, smClosed>>

\* The send on the receiver's channel (RequestGroup.out); a send on a channel that
\* RemoveReceiver closed in the meantime panics.
DemuxSend ==
    /\ ~fatal
    /\ dmx.pc = "send"
    /\ IF demuxKey(dmx.req) \in DOMAIN receivers
       THEN LET h == receivers[demuxKey(dmx.req)] IN
            /\ CanSend(rg[h].out)
            /\ rg' = [rg EXCEPT ![h].out = Append(@, dmx.req)]
            /\ dmx' = [pc |-> "recv", req |-> NoReq]
            /\ fatal' = fatal
       ELSE /\ fatal' = TRUE
            /\ UNCHANGED <<rg, dmx>>
    /\ UNCHANGED <<nonPipeVars, cfg, in, inClosed, out, outClosed, requestGroupNum, receivers, pwg,
                   prod, submitted, results, cancelled, wk, running, completed, fwd, got,
                   closer, smClosed>>

\* p.out is closed and empty: the demux goroutine ends.
DemuxDone ==
    /\ ~fatal
    /\ dmx.pc = "recv"
    /\ ~CanRecv(out)
    /\ outClosed
    /\ dmx' = [dmx EXCEPT !.pc = "done"]
    /\ UNCHANGED <<nonPipeVars, cfg, in, inClosed, out, outClosed, requestGroupNum, receivers, pwg,
                   rg, prod, submitted, results, cancelled, wk, running, completed, fwd,
                   got, closer, smClosed, fatal>>

(***************************************************************************)
(* The goroutine NewRequestGroup starts for the group: for req := range    *)
(* r.out, r.wg.Done(), then the request is sent on r.user (no Ordered      *)
(* option) or given to the InOrder reassembler (Ordered option), which     *)
(* holds it until every lower item number was released and sends the       *)
(* requests on r.user in ascending order from 0.  When r.out is closed and *)
(* empty the goroutine closes r.user, resp. the reassembler.               *)
(***************************************************************************)
\* demux.InOrder: the held request that is next to be released, if any.
InOrderNext(held, counter) == {r \in held : r.itemNum = counter}

ForwarderRecv(h) ==
    /\ ~fatal
    /\ fwd[h].pc = "recv"
    /\ CanRecv(rg[h].out)
    /\ rg' = [rg EXCEPT ![h].out = ChanRecv(@)[2], ![h].wg = @ - 1]
    /\ LET req == ChanRecv(rg[h].out)[1] IN
       IF cfg.ordered
       THEN LET next == InOrderNext(fwd[h].held \cup {req}, fwd[h].counter)
                held == fwd[h].held \cup {[req EXCEPT !.waited = next = {}]}
            IN
            fwd' = [fwd EXCEPT ![h].held = held,
                               ![h].pc = IF InOrderNext(held, fwd[h].counter) # {}
                                         THEN "release" ELSE "recv"]
       ELSE fwd' = [fwd EXCEPT ![h].req = req, ![h].pc = "send"]
    /\ UNCHANGED <<nonPipeVars, cfg, in, inClosed, out, outClosed, requestGroupNum, receivers, pwg,
                   prod, submitted, results, cancelled, wk, running, completed, dmx, got,
                   closer, smClosed, fatal>>

\* r.user <- req
ForwarderSend(h) ==
    /\ ~fatal
    /\ fwd[h].pc = "send"
    /\ CanSend(rg[h].user)
    /\ rg' = [rg EXCEPT ![h].user = Append(@, fwd[h].req)]
    /\ fwd' = [fwd EXCEPT ![h].req = NoReq, ![h].pc = "recv"]
    /\ UNCHANGED <<nonPipeVars, cfg, in, inClosed, out, outClosed, requestGroupNum, receivers, pwg,
                   prod, submitted, results, cancelled, wk, running, completed, dmx, got,
                   closer, smClosed, fatal>>

\* InOrder.Add: the release of the next request in order on r.user.
InOrderRelease(h) ==
    /\ ~fatal
    /\ fwd[h].pc = "release"
    /\ CanSend(rg[h].user)
    /\ LET req == CHOOSE r \in InOrderNext(fwd[h].held, fwd[h].counter) : TRUE
           held == fwd[h].held \ {req}
       IN  /\ rg' = [rg EXCEPT ![h].user = Append(@, req)]
           /\ fwd' = [fwd EXCEPT ![h].held = held,
                                 ![h].counter = @ + 1,
                                 ![h].pc = IF InOrderNext(held, fwd[h].counter + 1) # {}
                                           THEN "release" ELSE "recv"]
    /\ UNCHANGED <<nonPipeVars, cfg, in, inClosed, out, outClosed, requestGroupNum, receivers, pwg,
                   prod, submitted, results, cancelled, wk, running, completed, dmx, got,
                   closer, smClosed, fatal>>

\* r.out is closed and empty: close(r.user), resp. r.ordered.Close().
ForwarderDone(h) ==
    /\ ~fatal
    /\ fwd[h].pc = "recv"
    /\ ~CanRecv(rg[h].out)
    /\ rg[h].outClosed
    /\ rg' = [rg EXCEPT ![h].userClosed = TRUE]
    /\ fwd' = [fwd EXCEPT ![h].pc = "done"]
    /\ UNCHANGED <<nonPipeVars, cfg, in, inClosed, out, outClosed, requestGroupNum, receivers, pwg,
                   prod, submitted, results, cancelled, wk, running, completed, dmx, got,
                   closer, smClosed, fatal>>

\* The consumer of the group receives from Out().
Consume(h) ==
    /\ ~fatal
    /\ CanRecv(rg[h].user)
    /\ got' = [got EXCEPT ![h] = Append(@, ChanRecv(rg[h].user)[1])]
    /\ rg' = [rg EXCEPT ![h].user = ChanRecv(@)[2]]
    /\ UNCHANGED <<nonPipeVars, cfg, in, inClosed, out, outClosed, requestGroupNum, receivers, pwg,
                   prod, submitted, results, cancelled, wk, running, completed, dmx, fwd,
                   closer, smClosed, fatal>>

(***************************************************************************)
(* RequestGroup.Close: r.wg.Wait(), then demux.RemoveReceiver(r.id), which *)
(* closes r.out.  It is called when no Submit on the group is running.     *)
(***************************************************************************)
RequestGroupCloseCall(h) ==
    /\ ~fatal
    /\ rg[h].state = "open"
    /\ \A p \in Producers : prod[p].pc = "select" => prod[p].req.h # h
    /\ rg' = [rg EXCEPT ![h].state = "closing"]
    /\ UNCHANGED <<nonPipeVars, cfg, in, inClosed, out, outClosed, requestGroupNum, receivers, pwg,
                   prod, submitted, results, cancelled, wk, running, completed, dmx, fwd,
                   got, closer, smClosed, fatal>>

\* Mutant: Wait that does not wait.
WaitReturnsAtOnce(counter) == TRUE

\* sync.WaitGroup.Wait returns when the counter is zero.
WaitReturns(counter) == counter = 0

\* Mutant: Close removes the receiver without waiting for r.wg.
RequestGroupCloseNoWait(h) ==
    /\ ~fatal
    /\ rg[h].state = "closing"
    /\ receivers' = [k \in DOMAIN receivers \ {rg[h].id} |-> receivers[k]]
    /\ rg' = [rg EXCEPT ![h].state = "closed", ![h].outClosed = TRUE]
    /\ UNCHANGED <<nonPipeVars, cfg, in, inClosed, out, outClosed, requestGroupNum, pwg, prod,
                   submitted, results, cancelled, wk, running, completed, dmx, fwd, got,
                   closer, smClosed, fatal>>

RequestGroupClose(h) ==
    /\ ~fatal
    /\ rg[h].state = "closing"
    /\ WaitReturns(rg[h].wg)
    /\ receivers' = [k \in DOMAIN receivers \ {rg[h].id} |-> receivers[k]]
    /\ rg' = [rg EXCEPT ![h].state = "closed", ![h].outClosed = TRUE]
    /\ UNCHANGED <<nonPipeVars, cfg, in, inClosed, out, outClosed, requestGroupNum, pwg, prod,
                   submitted, results, cancelled, wk, running, completed, dmx, fwd, got,
                   closer, smClosed, fatal>>

(***************************************************************************)
(* Pipelines.Close: close(p.in), and a goroutine that waits for p.wg, then *)
(* closes p.out and calls sm.Close().  It is called once, when no Submit   *)
(* is running.                                                             *)
(***************************************************************************)
PipelinesClose ==
    /\ ~fatal
    /\ ~inClosed
    /\ \A p \in Producers : prod[p].pc = "idle"
    /\ inClosed' = TRUE
    /\ closer' = "wait"
    /\ UNCHANGED <<nonPipeVars, cfg, in, out, outClosed, requestGroupNum, receivers, pwg, rg, prod,
                   submitted, results, cancelled, wk, running, completed, dmx, fwd, got,
                   smClosed, fatal>>

PipelinesCloseWaited ==
    /\ ~fatal
    /\ closer = "wait"
    /\ WaitReturns(pwg)
    /\ outClosed' = TRUE
    /\ smClosed' = smClosed + 1
    /\ closer' = "done"
    /\ UNCHANGED <<nonPipeVars, cfg, in, inClosed, out, requestGroupNum, receivers, pwg, rg, prod,
                   submitted, results, cancelled, wk, running, completed, dmx, fwd, got,
                   fatal>>

(***************************************************************************)
(* The pools.  limited.Pool starts one goroutine per job and uses p.queue, *)
(* a channel of capacity size, as the limiter; pooled.Pool has size runner *)
(* goroutines that read jobs from p.queue, a channel of capacity 1.        *)
(* A submitter is at                                                       *)
(*   "acquire" limited, no NonBlocking: p.queue <- struct{}{}              *)
(*   "wgadd"   p.wg.Add(1)                                                 *)
(*   "runadd"  p.running.Add(1)                                            *)
(*   "go"      limited: the go statement                                   *)
(*   "ret"     limited: the deferred <-p.queue and the return              *)
(*   "send"    pooled: the send on p.queue, resp. the select               *)
(* A goroutine started for one job is at "spawned", "run" (the job         *)
(* function executes), "dec" (p.running.Add(-1)), "wgdone" (p.wg.Done())   *)
(* and "finished".  Callers obey the contract: no Submit once Close was    *)
(* called.                                                                 *)
(***************************************************************************)
Submitters == 1 .. pool.subs
Runners == 1 .. (IF pool.kind = "pooled" THEN pool.size ELSE 0)
Jobs == 1 .. pool.submitted

\* The state after New(name, size) returned.
PoolNew(kind, size, subs, maxJobs) ==
    /\ pool = [kind |-> kind, size |-> size, subs |-> subs, maxJobs |-> maxJobs,
               queue |-> <<>>, closed |-> FALSE, wg |-> 0, running |-> 0,
               submitted |-> 0]
    /\ sub = [s \in 1 .. subs |-> [pc |-> "idle", job |-> 0]]
    /\ rn = [r \in 1 .. (IF kind = "pooled" THEN size ELSE 0) |-> [pc |-> "recv", job |-> 0]]
    /\ jobs = <<>>
    /\ waiter = [pc |-> "idle", op |-> "none", snap |-> {}]

\* No pool exists.
PoolIdle == PoolNew("none", 0, 0, 0)

\* make(chan struct{}, size) of limited.New, make(chan submit, 1) of pooled.New.
QueueCap == IF pool.kind = "limited" THEN pool.size ELSE ChanCap

\* Mutant: the send on p.queue never waits for room.
QueueCanSendAlways(queue) == TRUE

\* The send on p.queue can proceed.
QueueCanSend(queue) == Len(queue) < QueueCap

\* Pool.Submit: the options are applied, the job gets its place in the model.
PoolSubmitBegin(s, nb) ==
    /\ sub[s].pc = "idle"
    /\ \A t \in Submitters : t < s => sub[t].pc # "idle"
    /\ pool.kind # "none"
    /\ waiter.op # "Close"
    /\ pool.submitted < pool.maxJobs
    /\ LET j == pool.submitted + 1 IN
        /\ jobs' = Append(jobs, [nb |-> nb, res |-> "pending", g |-> "none",
                                 extra |-> FALSE, starts |-> 0, ends |-> 0])
        /\ sub' = [sub EXCEPT ![s] = [pc |-> IF pool.kind = "limited" /\ ~nb
                                             THEN "acquire" ELSE "wgadd",
                                      job |-> j]]
        /\ pool' = [pool EXCEPT !.submitted = j]
    /\ UNCHANGED <<nonPoolVars, rn, waiter>>

\* limited: p.queue <- struct{}{}
LimitedAcquire(s) ==
    /\ sub[s].pc = "acquire"
    /\ QueueCanSend(pool.queue)
    /\ pool' = [pool EXCEPT !.queue = Append(@, "slot")]
    /\ sub' = [sub EXCEPT ![s].pc = "wgadd"]
    /\ UNCHANGED <<nonPoolVars, rn, jobs, waiter>>

\* p.wg.Add(1)
SubmitWgAdd(s) ==
    /\ sub[s].pc = "wgadd"
    /\ pool' = [pool EXCEPT !.wg = @ + 1]
    /\ sub' = [sub EXCEPT ![s].pc = "runadd"]
    /\ UNCHANGED <<nonPoolVars, rn, jobs, waiter>>

\* Mutant: Submit does not count the job as running.
SubmitRunningAddSkipped(s) ==
    /\ sub[s].pc = "runadd"
    /\ pool' = pool
    /\ sub' = [sub EXCEPT ![s].pc = IF pool.kind = "limited" THEN "go" ELSE "send"]
    /\ UNCHANGED <<nonPoolVars, rn, jobs, waiter>>

\* p.running.Add(1)
SubmitRunningAdd(s) ==
    /\ sub[s].pc = "runadd"
    /\ pool' = [pool EXCEPT !.running = @ + 1]
    /\ sub' = [sub EXCEPT ![s].pc = IF pool.kind = "limited" THEN "go" ELSE "send"]
    /\ UNCHANGED <<nonPoolVars, rn, jobs, waiter>>

\* limited: go func() { defer p.wg.Done(); defer p.running.Add(-1); runner(ctx) }()
LimitedGo(s) ==
    /\ sub[s].pc = "go"
    /\ jobs' = [jobs EXCEPT ![sub[s].job].g = "spawned"]
    /\ sub' = [sub EXCEPT ![s].pc = "ret"]
    /\ UNCHANGED <<nonPoolVars, pool, rn, waiter>>

\* limited: return nil, and on the way out the deferred func() { <-p.queue }()
\* when the slot was acquired.
LimitedReturn(s) ==
    /\ sub[s].pc = "ret"
    /\ pool' = [pool EXCEPT !.queue = IF jobs[sub[s].job].nb THEN @ ELSE Tail(@)]
    /\ jobs' = [jobs EXCEPT ![sub[s].job].res = Nil]
    /\ sub' = [sub EXCEPT ![s] = [pc |-> "idle", job |-> 0]]
    /\ UNCHANGED <<nonPoolVars, rn, waiter>>

\* Mutant: the select has no default case.
SelectNoDefault(job) == FALSE

\* pooled: with the NonBlocking option the send is a select with a default case.
SelectHasDefault(job) == job.nb

\* pooled: p.queue <- s, which waits for room; with NonBlocking the select that
\* sends if there is room and otherwise starts a goroutine for the job.
PooledSend(s) ==
    /\ sub[s].pc = "send"
    /\ LET j == sub[s].job IN
        IF QueueCanSend(pool.queue)
        THEN /\ pool' = [pool EXCEPT !.queue = Append(@, j)]
             /\ jobs' = [jobs EXCEPT ![j].res = Nil]
        ELSE /\ SelectHasDefault(jobs[j])
             /\ jobs' = [jobs EXCEPT ![j].res = Nil, ![j].g = "spawned", ![j].extra = TRUE]
             /\ pool' = pool
    /\ sub' = [sub EXCEPT ![s] = [pc |-> "idle", job |-> 0]]
    /\ UNCHANGED <<nonPoolVars, rn, waiter>>

\* Mutant: Done that takes two from the counter.
WgDoneTwice(counter) == IF counter >= 2 THEN counter - 2 ELSE 0

\* sync.WaitGroup.Done
WgDone(counter) == counter - 1

\* The goroutine of a job begins to execute the job function.
JobStart(j) ==
    /\ jobs[j].g = "spawned"
    /\ jobs' = [jobs EXCEPT ![j].g = "run", ![j].starts = @ + 1]
    /\ UNCHANGED <<nonPoolVars, pool, sub, rn, waiter>>

\* The job function returns.
JobReturn(j) ==
    /\ jobs[j].g = "run"
    /\ jobs' = [jobs EXCEPT ![j].g = "dec", ![j].ends = @ + 1]
    /\ UNCHANGED <<nonPoolVars, pool, sub, rn, waiter>>

\* defer p.running.Add(-1)
JobRunningDec(j) ==
    /\ jobs[j].g = "dec"
    /\ pool' = [pool EXCEPT !.running = @ - 1]
    /\ jobs' = [jobs EXCEPT ![j].g = "wgdone"]
    /\ UNCHANGED <<nonPoolVars, sub, rn, waiter>>

\* defer p.wg.Done()
JobWgDone(j) ==
    /\ jobs[j].g = "wgdone"
    /\ pool' = [pool EXCEPT !.wg = WgDone(@)]
    /\ jobs' = [jobs EXCEPT ![j].g = "finished"]
    /\ UNCHANGED <<nonPoolVars, sub, rn, waiter>>

\* pooled runner: for s := range p.queue, then s.job(s.ctx) begins.  The idle
\* runners are interchangeable: the one of least index receives.
PooledRunnerRecv(r) ==
    /\ rn[r].pc = "recv"
    /\ \A q \in Runners : q < r => rn[q].pc # "recv"
    /\ CanRecv(pool.queue)
    /\ LET j == ChanRecv(pool.queue)[1] IN
        /\ rn' = [rn EXCEPT ![r] = [pc |-> "run", job |-> j]]
        /\ jobs' = [jobs EXCEPT ![j].starts = @ + 1]
    /\ pool' = [pool EXCEPT !.queue = ChanRecv(@)[2]]
    /\ UNCHANGED <<nonPoolVars, sub, waiter>>

\* pooled runner: the job function returns.
PooledRunnerReturn(r) ==
    /\ rn[r].pc = "run"
    /\ jobs' = [jobs EXCEPT ![rn[r].job].ends = @ + 1]
    /\ rn' = [rn EXCEPT ![r].pc = "dec"]
    /\ UNCHANGED <<nonPoolVars, pool, sub, waiter>>

\* pooled runner: p.running.Add(-1)
PooledRunnerDec(r) ==
    /\ rn[r].pc = "dec"
    /\ pool' = [pool EXCEPT !.running = @ - 1]
    /\ rn' = [rn EXCEPT ![r].pc = "wgdone"]
    /\ UNCHANGED <<nonPoolVars, sub, jobs, waiter>>

\* pooled runner: p.wg.Done()
PooledRunnerWgDone(r) ==
    /\ rn[r].pc = "wgdone"
    /\ pool' = [pool EXCEPT !.wg = WgDone(@)]
    /\ rn' = [rn EXCEPT ![r] = [pc |-> "recv", job |-> 0]]
    /\ UNCHANGED <<nonPoolVars, sub, jobs, waiter>>

\* pooled runner: p.queue is closed and empty, the range loop ends.
PooledRunnerExit(r) ==
    /\ rn[r].pc = "recv"
    /\ \A q \in Runners : q < r => rn[q].pc # "recv"
    /\ ~CanRecv(pool.queue)
    /\ pool.closed
    /\ rn' = [rn EXCEPT ![r].pc = "exit"]
    /\ UNCHANGED <<nonPoolVars, pool, sub, jobs, waiter>>

\* Pool.Len: len(p.queue), the number of elements the channel holds now.
PoolLen == Len(pool.queue)

\* The jobs whose Submit call has returned nil.
Submitted == {j \in Jobs : jobs[j].res = Nil}

\* Pool.Wait is called: p.wg.Wait() begins.
PoolWaitCall ==
    /\ pool.kind # "none"
    /\ waiter.pc \in {"idle", "returned"}
    /\ waiter.op # "Close"
    /\ waiter' = [pc |-> "wait", op |-> "Wait", snap |-> Submitted]
    /\ UNCHANGED <<nonPoolVars, pool, sub, rn, jobs>>

\* Pool.Wait returns.
PoolWaitReturn ==
    /\ waiter.pc = "wait"
    /\ waiter.op = "Wait"
    /\ WaitReturns(pool.wg)
    /\ waiter' = [waiter EXCEPT !.pc = "returned"]
    /\ UNCHANGED <<nonPoolVars, pool, sub, rn, jobs>>

\* Pool.Close is called, when no Submit call is running: p.wg.Wait() begins.
PoolCloseCall ==
    /\ pool.kind # "none"
    /\ waiter.pc \in {"idle", "returned"}
    /\ waiter.op # "Close"
    /\ \A s \in Submitters : sub[s].pc = "idle"
    /\ waiter' = [pc |-> "wait", op |-> "Close", snap |-> Submitted]
    /\ UNCHANGED <<nonPoolVars, pool, sub, rn, jobs>>

\* Pool.Close: p.wg.Wait() returns.
PoolCloseWaited ==
    /\ waiter.pc = "wait"
    /\ waiter.op = "Close"
    /\ WaitReturns(pool.wg)
    /\ waiter' = [waiter EXCEPT !.pc = "closing"]
    /\ UNCHANGED <<nonPoolVars, pool, sub, rn, jobs>>

\* Pool.Close: close(p.queue), and the return.
PoolCloseChan ==
    /\ waiter.pc = "closing"
    /\ pool' = [pool EXCEPT !.closed = TRUE]
    /\ waiter' = [waiter EXCEPT !.pc = "returned"]
    /\ UNCHANGED <<nonPoolVars, sub, rn, jobs>>

(***************************************************************************)
(* Part 3: the queue (pipelines/stagedpipe/internal/queue).  The nodes of  *)
(* the linked list are qu.nodes; node 1 is the dummy node, and next = 0 is *)
(* the nil pointer.  A producer is at                                      *)
(*   "limit"  q.limit <- struct{}{}                                        *)
(*   "load"   rt := s.tail.Load()                                          *)
(*   "cas"    rt.next.CompareAndSwap(nil, n)                               *)
(*   "store"  s.tail.Store(n)                                              *)
(* and the consumer, inside Pop, at                                        *)
(*   "head"    h := s.head.Load()                                          *)
(*   "next"    n := h.next.Load()                                          *)
(*   "cas"     s.head.CompareAndSwap(h, n)                                 *)
(*   "closed"  q.closed.Load(), and the sleep if it is false               *)
(*   "release" the deferred receive from q.limit, and the return           *)
(* Callers obey the contract: Close is called when all Push calls have     *)
(* returned, none follows, and there is one consumer.  The values pushed   *)
(* are the pairs (producer, number of the producer's Push call).  The      *)
(* consumer calls Pop until it returns ok = false.                         *)
(***************************************************************************)
QProducers == 1 .. qu.producers

\* The state after New(size) returned; size <= 0 is a queue without limit.
QueueNew(size, producers, maxPush) ==
    /\ qu = [size |-> size, producers |-> producers, maxPush |-> maxPush,
             nodes |-> <<[val |-> <<0, 0>>, next |-> 0]>>, head |-> 1, tail |-> 1,
             closed |-> FALSE, limit |-> 0, pushes |-> 0]
    /\ qp = [p \in 1 .. producers |->
                [pc |-> "idle", done |-> 0, n |-> 0, rt |-> 0,
                 full |-> FALSE, removedAtCall |-> 0]]
    /\ qc = [pc |-> "idle", h |-> 0, n |-> 0, res |-> <<>>, popped |-> <<>>,
             removed |-> 0]

\* No queue exists.
QueueIdle == QueueNew(0, 0, 0)

\* The number of items the queue holds: the nodes linked behind the head.
RECURSIVE ChainLen(_, _)
ChainLen(nodes, i) == IF nodes[i].next = 0 THEN 0 ELSE 1 + ChainLen(nodes, nodes[i].next)

Held == ChainLen(qu.nodes, qu.head)

\* atomic.Pointer.CompareAndSwap(old, new) on a pointer holding cur:
\* (whether it swapped, the pointer afterwards).
\* Mutant: it stores without comparing.
CompareAndSwapBlind(cur, old, new) == <<TRUE, new>>

CompareAndSwap(cur, old, new) == <<cur = old, IF cur = old THEN new ELSE cur>>

\* Mutant: the send on q.limit never waits.
LimitHasRoomAlways(limit, size) == TRUE

\* q.limit <- struct{}{} can proceed: make(chan struct{}, size).
LimitHasRoom(limit, size) == limit < size

\* Push is called.
QueuePushCall(p) ==
    /\ qp[p].pc = "idle"
    /\ ~qu.closed
    /\ qu.pushes < qu.maxPush
    /\ qu' = [qu EXCEPT !.pushes = @ + 1]
    /\ qp' = [qp EXCEPT ![p].pc = IF qu.size > 0 THEN "limit" ELSE "load",
                        ![p].full = qu.size > 0 /\ Held = qu.size,
                        ![p].removedAtCall = qc.removed]
    /\ UNCHANGED <<nonQueueVars, qc>>

\* if q.limit != nil { q.limit <- struct{}{} }
QueuePushLimit(p) ==
    /\ qp[p].pc = "limit"
    /\ LimitHasRoom(qu.limit, qu.size)
    /\ qu' = [qu EXCEPT !.limit = @ + 1]
    /\ qp' = [qp EXCEPT ![p].pc = "load"]
    /\ UNCHANGED <<nonQueueVars, qc>>

\* simple.push: n := &node[A]{val: val} (once), rt := s.tail.Load()
PushLoadTail(p) ==
    /\ qp[p].pc = "load"
    /\ IF qp[p].n = 0
       THEN /\ qu' = [qu EXCEPT !.nodes = Append(@, [val |-> <<p, qp[p].done + 1>>,
                                                    next |-> 0])]
            /\ qp' = [qp EXCEPT ![p].n = Len(qu.nodes) + 1, ![p].rt = qu.tail,
                                ![p].pc = "cas"]
       ELSE /\ qu' = qu
            /\ qp' = [qp EXCEPT ![p].rt = qu.tail, ![p].pc = "cas"]
    /\ UNCHANGED <<nonQueueVars, qc>>

\* simple.push: if rt.next.CompareAndSwap(nil, n) ... else continue
PushCas(p) ==
    /\ qp[p].pc = "cas"
    /\ LET cas == CompareAndSwap(qu.nodes[qp[p].rt].next, 0, qp[p].n) IN
        /\ qu' = [qu EXCEPT !.nodes[qp[p].rt].next = cas[2]]
        /\ qp' = [qp EXCEPT ![p].pc = IF cas[1] THEN "store" ELSE "load"]
    /\ UNCHANGED <<nonQueueVars, qc>>

\* simple.push: s.tail.Store(n); return.  Push returns.
PushStoreTail(p) ==
    /\ qp[p].pc = "store"
    /\ qu' = [qu EXCEPT !.tail = qp[p].n]
    /\ qp' = [qp EXCEPT ![p].pc = "idle", ![p].n = 0, ![p].rt = 0, ![p].done = @ + 1]
    /\ UNCHANGED <<nonQueueVars, qc>>

\* Close: q.closed.Store(true), when every Push call has returned.
QueueClose ==
    /\ qu.producers > 0
    /\ ~qu.closed
    /\ \A p \in QProducers : qp[p].pc = "idle"
    /\ qu' = [qu EXCEPT !.closed = TRUE]
    /\ UNCHANGED <<nonQueueVars, qp, qc>>

\* Pop returned ok = false before.
SawNotOk == \E i \in DOMAIN qc.popped : ~qc.popped[i][2]

\* Pop is called.
QueuePopCall ==
    /\ qu.producers > 0
    /\ qc.pc = "idle"
    /\ ~SawNotOk
    /\ qc' = [qc EXCEPT !.pc = "head"]
    /\ UNCHANGED <<nonQueueVars, qu, qp>>

\* simple.pop: h := s.head.Load()
PopLoadHead ==
    /\ qc.pc = "head"
    /\ qc' = [qc EXCEPT !.h = qu.head, !.pc = "next"]
    /\ UNCHANGED <<nonQueueVars, qu, qp>>

\* simple.pop: n := h.next.Load(); if n == nil, return the zero value and false.
PopLoadNext ==
    /\ qc.pc = "next"
    /\ qc' = [qc EXCEPT !.n = qu.nodes[qc.h].next,
                        !.pc = IF qu.nodes[qc.h].next # 0 THEN "cas" ELSE "closed"]
    /\ UNCHANGED <<nonQueueVars, qu, qp>>

\* simple.pop: if s.head.CompareAndSwap(h, n) { return n.val, true } else continue
PopCas ==
    /\ qc.pc = "cas"
    /\ LET cas == CompareAndSwap(qu.head, qc.h, qc.n) IN
        /\ qu' = [qu EXCEPT !.head = cas[2]]
        /\ qc' = IF cas[1]
                 THEN [qc EXCEPT !.res = <<qu.nodes[qc.n].val, TRUE>>, !.pc = "release",
                                 !.removed = @ + 1]
                 ELSE [qc EXCEPT !.pc = "head"]
    /\ UNCHANGED <<nonQueueVars, qp>>

\* Pop: if q.closed.Load() { return a, ok }; otherwise sleep and try again.
PopClosedLoad ==
    /\ qc.pc = "closed"
    /\ qc' = IF qu.closed
             THEN [qc EXCEPT !.res = <<<<0, 0>>, FALSE>>, !.pc = "release"]
             ELSE [qc EXCEPT !.pc = "head"]
    /\ UNCHANGED <<nonQueueVars, qu, qp>>

\* Pop's deferred function: select { case <-q.limit: default: }, and the return.
PopRelease ==
    /\ qc.pc = "release"
    /\ qu' = [qu EXCEPT !.limit = IF qu.size > 0 /\ @ > 0 THEN @ - 1 ELSE @]
    /\ qc' = [qc EXCEPT !.popped = Append(@, qc.res), !.res = <<>>, !.pc = "idle",
                        !.h = 0, !.n = 0]
    /\ UNCHANGED <<nonQueueVars, qp>>

(***************************************************************************)
(* Part 4: the wait group (prim, Group).  One goroutine calls Go for each  *)
(* function and then Wait.  An error is the sequence of its Unwrap chain:  *)
(* <<>> is the nil pointer, <<0>> is context.Canceled, <<i>> is the error  *)
(* that function i returns, and fmt.Errorf("%w", err) puts -1 in front     *)
(* of err.  Function i is at                                               *)
(*   "none"      not passed to Go                                          *)
(*   "queued"    in the channel of the pooled Pool                         *)
(*   "start"     if ctx.Err() != nil                                       *)
(*   "call"      f(ctx)                                                    *)
(*   "load"      applyErr: existing := ptr.Load()                          *)
(*   "cas"       applyErr: ptr.CompareAndSwap(existing, &err)              *)
(*   "cancel"    if w.CancelOnErr != nil { w.CancelOnErr() }               *)
(*   "wgdone"    the deferred w.wg.Done()                                  *)
(*   "countdec"  the deferred w.count.Add(-1)                              *)
(*   "finished"  returned                                                  *)
(* What f does is its outcome: it returns nil, it returns its error, or    *)
(* it waits until the context is done and returns ctx.Err().               *)
(***************************************************************************)
Canceled == <<0>>

NoErr == <<>>

Funcs == 1 .. grp.maxGo

GRunners == 1 .. (IF grp.pool = "pooled" THEN grp.size ELSE 0)

Outcomes == {"nil", "err", "ctx"}

\* The state of a Group with the fields Pool and CancelOnErr set by the
\* caller; outs[i] is what the i-th function does; external tells whether
\* the context can be cancelled by somebody else than CancelOnErr.
GroupNew(kind, size, cancelOnErr, external, outs) ==
    /\ grp = [pool |-> kind, size |-> size, maxGo |-> Len(outs), external |-> external,
              CancelOnErr |-> cancelOnErr, cancelSet |-> cancelOnErr, count |-> 0, total |-> 0, errors |-> NoErr,
              wg |-> 0, ctxErr |-> NoErr, queue |-> <<>>, tokens |-> 0,
              captured |-> <<>>, cancels |-> <<>>]
    /\ gf = [i \in 1 .. Len(outs) |->
                [pc |-> "none", out |-> outs[i], err |-> NoErr, existing |-> NoErr,
                 fromF |-> FALSE]]
    /\ gc = [pc |-> "go", calls |-> 0, res |-> NoErr, seen |-> {},
             rn |-> [r \in 1 .. (IF kind = "pooled" THEN size ELSE 0) |-> 0]]

\* No Group exists.
GroupIdle == GroupNew("none", 0, FALSE, FALSE, <<>>)

\* fmt.Errorf("%w", err)
Errorf(err) == <<-1>> \o err

\* Mutant: no error is taken for a context error.
IsContextErrNever(err) == FALSE

\* applyErr: switch err { case context.Canceled, context.DeadlineExceeded: return }
IsContextErr(err) == err = Canceled

\* The errors of the Unwrap chain of err that are not fmt wrappers.
RECURSIVE Unwrapped(_)
Unwrapped(err) ==
    IF err = NoErr THEN {}
    ELSE (IF Head(err) = -1 THEN {} ELSE {<<Head(err)>>}) \cup Unwrapped(Tail(err))

\* Mutant: Wait does not wait.
WgWaitReturnsAtOnce(counter) == TRUE

\* sync.WaitGroup.Wait returns.
WgWaitReturns(counter) == counter = 0

\* Go: w.count.Add(1); w.total.Add(1); w.wg.Add(1); without a Pool the
\* goroutine is started and Go returns.
GroupGo ==
    /\ gc.pc = "go"
    /\ gc.calls < grp.maxGo
    /\ LET i == gc.calls + 1 IN
        /\ grp' = [grp EXCEPT !.count = @ + 1, !.total = @ + 1, !.wg = @ + 1]
        /\ IF grp.pool = "none"
           THEN /\ gf' = [gf EXCEPT ![i].pc = "start"]
                /\ gc' = [gc EXCEPT !.calls = i]
           ELSE /\ gf' = gf
                /\ gc' = [gc EXCEPT !.pc = "submit"]
    /\ UNCHANGED nonGroupVars

\* limited.Pool.Submit from Go: the slot is taken, the goroutine is started,
\* and the deferred receive gives the slot back when Submit returns.
GroupLimitedAcquire ==
    /\ gc.pc = "submit"
    /\ grp.pool = "limited"
    /\ grp.tokens < grp.size
    /\ grp' = [grp EXCEPT !.tokens = @ + 1]
    /\ gc' = [gc EXCEPT !.pc = "spawn"]
    /\ UNCHANGED <<nonGroupVars, gf>>

GroupLimitedSpawn ==
    /\ gc.pc = "spawn"
    /\ grp' = [grp EXCEPT !.tokens = @ - 1]
    /\ gf' = [gf EXCEPT ![gc.calls + 1].pc = "start"]
    /\ gc' = [gc EXCEPT !.pc = "go", !.calls = @ + 1]
    /\ UNCHANGED nonGroupVars

\* pooled.Pool.Submit from Go: p.queue <- s, a channel of capacity 1.
GroupPooledSend ==
    /\ gc.pc = "submit"
    /\ grp.pool = "pooled"
    /\ Len(grp.queue) < ChanCap
    /\ grp' = [grp EXCEPT !.queue = Append(@, gc.calls + 1)]
    /\ gf' = [gf EXCEPT ![gc.calls + 1].pc = "queued"]
    /\ gc' = [gc EXCEPT !.pc = "go", !.calls = @ + 1]
    /\ UNCHANGED nonGroupVars

\* pooled.Pool.runner: for s := range p.queue { s.job(s.ctx) ...
GroupRunnerRecv(r) ==
    /\ r = Min({x \in GRunners : gc.rn[x] = 0} \cup {grp.size + 1})
    /\ grp.queue # <<>>
    /\ grp' = [grp EXCEPT !.queue = Tail(@)]
    /\ gf' = [gf EXCEPT ![Head(grp.queue)].pc = "start"]
    /\ gc' = [gc EXCEPT !.rn[r] = Head(grp.queue)]
    /\ UNCHANGED nonGroupVars

\* pooled.Pool.runner: ... p.running.Add(-1); p.wg.Done() }
GroupRunnerDone(r) ==
    /\ r \in GRunners
    /\ gc.rn[r] # 0
    /\ gf[gc.rn[r]].pc = "finished"
    /\ gc' = [gc EXCEPT !.rn[r] = 0]
    /\ UNCHANGED <<nonGroupVars, grp, gf>>

\* The function passed to the goroutine: if ctx.Err() != nil
FuncStart(i) ==
    /\ gf[i].pc = "start"
    /\ gf' = IF grp.ctxErr # NoErr
             THEN [gf EXCEPT ![i].pc = "load", ![i].err = grp.ctxErr, ![i].fromF = FALSE]
             ELSE [gf EXCEPT ![i].pc = "call"]
    /\ UNCHANGED <<nonGroupVars, grp, gc>>

\* if err := f(ctx); err != nil
FuncCall(i) ==
    /\ gf[i].pc = "call"
    /\ gf[i].out = "ctx" => grp.ctxErr # NoErr
    /\ gf' = CASE gf[i].out = "nil" -> [gf EXCEPT ![i].pc = "wgdone"]
               [] gf[i].out = "err" ->
                     [gf EXCEPT ![i].pc = "load", ![i].err = <<i>>, ![i].fromF = TRUE]
               [] gf[i].out = "ctx" ->
                     [gf EXCEPT ![i].pc = "load", ![i].err = grp.ctxErr, ![i].fromF = TRUE]
    /\ UNCHANGED <<nonGroupVars, grp, gc>>

\* Where the function goes on when applyErr returned.
AfterApplyErr(i) == IF gf[i].fromF THEN "cancel" ELSE "wgdone"

\* applyErr: existing := ptr.Load(), and what follows up to the CompareAndSwap.
ApplyErrLoad(i) ==
    /\ gf[i].pc = "load"
    /\ gf' = IF grp.errors = NoErr
             THEN [gf EXCEPT ![i].existing = NoErr, ![i].pc = "cas"]
             ELSE IF IsContextErr(gf[i].err)
                  THEN [gf EXCEPT ![i].pc = AfterApplyErr(i)]
                  ELSE [gf EXCEPT ![i].existing = grp.errors, ![i].err = Errorf(@),
                                  ![i].pc = "cas"]
    /\ UNCHANGED <<nonGroupVars, grp, gc>>

\* applyErr: if ptr.CompareAndSwap(existing, &err) { return }
ApplyErrCas(i) ==
    /\ gf[i].pc = "cas"
    /\ LET cas == CompareAndSwap(grp.errors, gf[i].existing, gf[i].err) IN
        /\ grp' = [grp EXCEPT !.errors = cas[2],
                              !.captured = IF cas[1] THEN Append(@, gf[i].err) ELSE @]
        /\ gf' = [gf EXCEPT ![i].pc = IF cas[1] THEN AfterApplyErr(i) ELSE "load"]
    /\ UNCHANGED <<nonGroupVars, gc>>

\* if w.CancelOnErr != nil { w.CancelOnErr() }
FuncCancel(i) ==
    /\ gf[i].pc = "cancel"
    /\ grp' = IF grp.CancelOnErr
              THEN [grp EXCEPT !.ctxErr = IF @ = NoErr THEN Canceled ELSE @,
                               !.cancels = Append(@, grp.errors)]
              ELSE grp
    /\ gf' = [gf EXCEPT ![i].pc = "wgdone"]
    /\ UNCHANGED <<nonGroupVars, gc>>

\* defer w.wg.Done()
FuncWgDone(i) ==
    /\ gf[i].pc = "wgdone"
    /\ grp' = [grp EXCEPT !.wg = WgDone(@)]
    /\ gf' = [gf EXCEPT ![i].pc = "countdec"]
    /\ UNCHANGED <<nonGroupVars, gc>>

\* defer w.count.Add(-1)
FuncCountDec(i) ==
    /\ gf[i].pc = "countdec"
    /\ grp' = [grp EXCEPT !.count = @ - 1]
    /\ gf' = [gf EXCEPT ![i].pc = "finished"]
    /\ UNCHANGED <<nonGroupVars, gc>>

\* The context is cancelled by somebody else than the Group.
GroupCtxCancel ==
    /\ grp.external
    /\ grp.ctxErr = NoErr
    /\ gc.pc \in {"go", "submit", "spawn", "wait"}
    /\ grp' = [grp EXCEPT !.ctxErr = Canceled]
    /\ UNCHANGED <<nonGroupVars, gf, gc>>

\* The functions that have returned.
FuncsReturned == {i \in Funcs : gf[i].pc \in {"wgdone", "countdec", "finished"}}

\* Wait is called, after the calls of Go.
GroupWaitCall ==
    /\ gc.pc = "go"
    /\ grp.maxGo > 0
    /\ gc' = [gc EXCEPT !.pc = "wait", !.seen = FuncsReturned]
    /\ UNCHANGED <<nonGroupVars, grp, gf>>

\* Wait: w.wg.Wait() returns; CancelOnErr is called and cleared;
\* err := w.errors.Load() is what Wait returns.
GroupWaitWaited ==
    /\ gc.pc = "wait"
    /\ WgWaitReturns(grp.wg)
    /\ grp' = [grp EXCEPT !.ctxErr = IF grp.CancelOnErr /\ @ = NoErr THEN Canceled ELSE @,
                          !.CancelOnErr = FALSE]
    /\ gc' = [gc EXCEPT !.pc = "reset", !.res = grp.errors]
    /\ UNCHANGED <<nonGroupVars, gf>>

\* Wait: the deferred w.reset(), and the return.
GroupWaitReset ==
    /\ gc.pc = "reset"
    /\ grp' = [grp EXCEPT !.count = 0, !.total = 0, !.errors = NoErr, !.CancelOnErr = FALSE]
    /\ gc' = [gc EXCEPT !.pc = "returned"]
    /\ UNCHANGED <<nonGroupVars, gf>>

(***************************************************************************)
(* Part 5: the registry of pools (goroutines/internal/register) and the    *)
(* registration loop of limited.New and pooled.New.  A name is the         *)
(* sequence of its characters, a decimal number being one character.  The  *)
(* mutex mu is free or read-locked; Register and Unregister hold it for    *)
(* their whole body and are one step each.                                 *)
(***************************************************************************)
RPools == 1 .. Len(rp)

\* The decimal numbers, "1" first.
NumTokens == <<"1", "2", "3", "4">>

\* strconv.Atoi of one piece of a name: (the number, whether it is one).
Atoi(piece) ==
    IF Len(piece) = 1 /\ \E n \in DOMAIN NumTokens : NumTokens[n] = piece[1]
    THEN <<CHOOSE n \in DOMAIN NumTokens : NumTokens[n] = piece[1], TRUE>>
    ELSE <<0, FALSE>>

\* fmt.Sprintf("%d", n)
Itoa(n) == IF n \in DOMAIN NumTokens THEN <<NumTokens[n]>> ELSE <<"big">>

\* numOrHyphen.MatchString(name): the name has a digit, a hyphen or a space.
MatchNumOrHyphen(name) ==
    \E k \in DOMAIN name : name[k] \in Range(NumTokens) \cup {"-", " ", "big"}

\* ValidateBaseName returns nil.
ValidateBaseName(name) == ~MatchNumOrHyphen(name)

\* The first piece of strings.SplitAfter(s, "-") and what follows it.
SplitFirst(s) ==
    IF \E k \in DOMAIN s : s[k] = "-"
    THEN LET k == Min({x \in DOMAIN s : s[x] = "-"}) IN
            <<SubSeq(s, 1, k), SubSeq(s, k + 1, Len(s)), TRUE>>
    ELSE <<s, <<>>, FALSE>>

\* Mutant: the name is left as it is.
NewNameSame(name) == name

\* NewName; <<"panic">> stands for the panic and for the index out of range.
NewName(name) ==
    IF ~MatchNumOrHyphen(name)
    THEN name \o <<"-", "1">>
    ELSE LET sp0 == SplitFirst(name)
             sp1 == SplitFirst(sp0[2])
             n == Atoi(sp1[1])
         IN IF ~sp0[3] \/ ~n[2]
            THEN <<"panic">>
            ELSE sp0[1] \o <<"-">> \o Itoa(n[1] + 1)

\* An empty registry, pools not yet created with the names they are going
\* to be given, and no enumeration.
RegistryNew(names) ==
    /\ reg = [registry |-> {}, mu |-> "free"]
    /\ rp = [p \in 1 .. Len(names) |-> [pc |-> "none", base |-> names[p], name |-> <<>>]]
    /\ re = [pc |-> "none", todo |-> {}, ch |-> <<>>, closed |-> FALSE,
             consumer |-> "none", received |-> <<>>, snapshot |-> {}]

\* No registry is used.
RegistryIdle == RegistryNew(<<>>)

\* The name under which the registry holds pool p.
Registered(p) == \E e \in reg.registry : e[2] = p

\* New(name, size) up to the loop: the name is validated, p.name = name.
RegNewCall(p) ==
    /\ p = Min({x \in RPools : rp[x].pc = "none"} \cup {Len(rp) + 1})
    /\ rp' = [rp EXCEPT ![p].pc = IF ValidateBaseName(rp[p].base) THEN "register"
                                  ELSE "invalid",
                        ![p].name = rp[p].base]
    /\ UNCHANGED <<nonRegVars, reg, re>>

\* New: if err := register.Register(p); err != nil ... else break
RegRegister(p) ==
    /\ rp[p].pc = "register"
    /\ reg.mu = "free"
    /\ IF rp[p].name = <<>>
       THEN /\ reg' = reg
            /\ rp' = [rp EXCEPT ![p].pc = "done"]
       ELSE IF \E e \in reg.registry : e[1] = rp[p].name
            THEN /\ reg' = reg
                 /\ rp' = [rp EXCEPT ![p].pc = "rename"]
            ELSE /\ reg' = [reg EXCEPT !.registry = @ \cup {<<rp[p].name, p>>}]
                 /\ rp' = [rp EXCEPT ![p].pc = "done"]
    /\ UNCHANGED <<nonRegVars, re>>

\* New: p.name = register.NewName(name); continue
RegRename(p) ==
    /\ rp[p].pc = "rename"
    /\ rp' = [rp EXCEPT ![p].name = NewName(rp[p].base), ![p].pc = "register"]
    /\ UNCHANGED <<nonRegVars, reg, re>>

\* Close: register.Unregister(p)
RegUnregister(p) ==
    /\ rp[p].pc = "done"
    /\ reg.mu = "free"
    /\ reg' = [reg EXCEPT !.registry = {e \in @ : e[1] # rp[p].name}]
    /\ rp' = [rp EXCEPT ![p].pc = "closed"]
    /\ UNCHANGED <<nonRegVars, re>>

\* Pools(): ch := make(chan goroutines.Pool, 1); go func() ...; return ch.
\* The caller ranges over ch.
PoolsCall ==
    /\ Len(rp) > 0
    /\ re.pc = "none"
    /\ re' = [re EXCEPT !.pc = "rlock", !.consumer = "range"]
    /\ UNCHANGED <<nonRegVars, reg, rp>>

\* Pools' goroutine: mu.RLock(), and the range over the registry begins.
PoolsRLock ==
    /\ re.pc = "rlock"
    /\ reg.mu = "free"
    /\ reg' = [reg EXCEPT !.mu = "rlocked"]
    /\ re' = [re EXCEPT !.pc = "send", !.todo = reg.registry, !.snapshot = reg.registry]
    /\ UNCHANGED <<nonRegVars, rp>>

\* Pools' goroutine: ch <- p, for the pools of the registry in any order.
PoolsSend ==
    /\ re.pc = "send"
    /\ re.todo # {}
    /\ CanSend(re.ch)
    /\ \E e \in re.todo :
          re' = [re EXCEPT !.ch = Append(@, e), !.todo = @ \ {e}]
    /\ UNCHANGED <<nonRegVars, reg, rp>>

\* Pools' goroutine: the loop is over, the deferred mu.RUnlock() runs and
\* the goroutine ends; nothing closes ch.
PoolsRUnlock ==
    /\ re.pc = "send"
    /\ re.todo = {}
    /\ reg' = [reg EXCEPT !.mu = "free"]
    /\ re' = [re EXCEPT !.pc = "exited"]
    /\ UNCHANGED <<nonRegVars, rp>>

\* The caller's range over the channel: the next value, or the end of the
\* loop when the channel is closed and empty.
PoolsRange ==
    /\ re.consumer = "range"
    /\ re.ch # <<>> \/ re.closed
    /\ re' = IF re.ch # <<>>
             THEN [re EXCEPT !.received = Append(@, Head(re.ch)), !.ch = Tail(@)]
             ELSE [re EXCEPT !.consumer = "ended"]
    /\ UNCHANGED <<nonRegVars, reg, rp>>

(***************************************************************************)
(* Part 6: the statistics of the run times (stats, setMin, setMax,         *)
(* toStats).  Runners take requests through processReq and calcExitStats   *)
(* with run times of their own; an observer calls Stats().  A runner is at *)
(*   "idle"       between requests                                         *)
(*   "proc"       in processReq, after p.stats.running.Add(1)              *)
(*   "completed"  calcExitStats: p.stats.completed.Add(1)                  *)
(*   "load"       setMin or setMax: c := current.Load(), the compare    *)
(*   "cas"        setMin or setMax: current.CompareAndSwap(c, v)        *)
(*   "avg"        calcExitStats: p.stats.avgTotal.Add(runTime)             *)
(* and the observer, in toStats, at the load it is going to do next.       *)
(***************************************************************************)
SRunners == 1 .. Len(sw)

\* newStats(): every counter is 0.
StatsNew(runners, reqs, maxTime) ==
    /\ st = [running |-> 0, completed |-> 0, min |-> 0, max |-> 0, avgTotal |-> 0,
             reqs |-> reqs, maxTime |-> maxTime, taken |-> 0, times |-> {}]
    /\ sw = [w \in 1 .. runners |-> [pc |-> "idle", runTime |-> 0, set |-> "min", c |-> 0]]
    /\ so = [pc |-> "idle", Running |-> 0, Completed |-> 0, Min |-> 0, Max |-> 0,
             Avg |-> 0, taken |-> FALSE]

\* No statistics are kept.
StatsIdle == StatsNew(0, 0, 0)

\* setMin: if v >= c { return }
setMinKeeps(v, c) == v >= c

\* setMax: if v <= c { return }
setMaxKeeps(v, c) == v <= c

\* processReq: p.stats.running.Add(1)
StatEnter(w) ==
    /\ w = Min({x \in SRunners : sw[x].pc = "idle"} \cup {Len(sw) + 1})
    /\ st.taken < st.reqs
    /\ st' = [st EXCEPT !.running = @ + 1, !.taken = @ + 1]
    /\ sw' = [sw EXCEPT ![w].pc = "proc"]
    /\ UNCHANGED <<nonStatVars, so>>

\* calcExitStats: runTime := time.Since(r.ingestTime); p.stats.running.Add(-1)
StatExitRunning(w) ==
    /\ sw[w].pc = "proc"
    /\ \E t \in 1 .. st.maxTime :
          sw' = [sw EXCEPT ![w].pc = "completed", ![w].runTime = t]
    /\ st' = [st EXCEPT !.running = @ - 1]
    /\ UNCHANGED <<nonStatVars, so>>

\* calcExitStats: p.stats.completed.Add(1)
StatExitCompleted(w) ==
    /\ sw[w].pc = "completed"
    /\ st' = [st EXCEPT !.completed = @ + 1]
    /\ sw' = [sw EXCEPT ![w].pc = "load", ![w].set = "min"]
    /\ UNCHANGED <<nonStatVars, so>>

\* Where calcExitStats goes on when setMin, resp. setMax, returned.
AfterSet(w) == IF sw[w].set = "min" THEN [sw[w] EXCEPT !.pc = "load", !.set = "max"]
               ELSE [sw[w] EXCEPT !.pc = "avg"]

\* setMin, setMax: c := current.Load(); return if v need not be stored.
SetLoad(w) ==
    /\ sw[w].pc = "load"
    /\ LET c == IF sw[w].set = "min" THEN st.min ELSE st.max
           keeps == IF sw[w].set = "min" THEN setMinKeeps(sw[w].runTime, c)
                    ELSE setMaxKeeps(sw[w].runTime, c)
       IN sw' = [sw EXCEPT ![w] = IF keeps THEN AfterSet(w)
                                   ELSE [sw[w] EXCEPT !.pc = "cas", !.c = c]]
    /\ UNCHANGED <<nonStatVars, st, so>>

\* setMin, setMax: if current.CompareAndSwap(c, v) { return }
SetCas(w) ==
    /\ sw[w].pc = "cas"
    /\ LET cur == IF sw[w].set = "min" THEN st.min ELSE st.max
           cas == CompareAndSwap(cur, sw[w].c, sw[w].runTime)
       IN /\ st' = IF sw[w].set = "min" THEN [st EXCEPT !.min = cas[2]]
                   ELSE [st EXCEPT !.max = cas[2]]
          /\ sw' = [sw EXCEPT ![w] = IF cas[1] THEN AfterSet(w)
                                      ELSE [sw[w] EXCEPT !.pc = "load"]]
    /\ UNCHANGED <<nonStatVars, so>>

\* calcExitStats: p.stats.avgTotal.Add(int64(runTime)); the request has
\* completed with this run time.
StatAvgAdd(w) ==
    /\ sw[w].pc = "avg"
    /\ st' = [st EXCEPT !.avgTotal = @ + sw[w].runTime, !.times = @ \cup {sw[w].runTime}]
    /\ sw' = [sw EXCEPT ![w].pc = "idle", ![w].runTime = 0, ![w].c = 0, ![w].set = "min"]
    /\ UNCHANGED <<nonStatVars, so>>

\* toStats: Running: s.running.Load()
ToStatsRunning ==
    /\ Len(sw) > 0
    /\ so.pc = "idle"
    /\ so' = [so EXCEPT !.pc = "completed", !.Running = st.running, !.taken = FALSE]
    /\ UNCHANGED <<nonStatVars, st, sw>>

\* toStats: Completed: s.completed.Load()
ToStatsCompleted ==
    /\ so.pc = "completed"
    /\ so' = [so EXCEPT !.pc = "min", !.Completed = st.completed]
    /\ UNCHANGED <<nonStatVars, st, sw>>

\* toStats: Min: time.Duration(s.min.Load())
ToStatsMin ==
    /\ so.pc = "min"
    /\ so' = [so EXCEPT !.pc = "max", !.Min = st.min]
    /\ UNCHANGED <<nonStatVars, st, sw>>

\* toStats: Max: time.Duration(s.max.Load())
ToStatsMax ==
    /\ so.pc = "max"
    /\ so' = [so EXCEPT !.pc = "avg", !.Max = st.max]
    /\ UNCHANGED <<nonStatVars, st, sw>>

\* toStats: if stats.Completed != 0 { stats.Avg = s.avgTotal.Load() / stats.Completed },
\* and the return of the snapshot.
ToStatsAvg ==
    /\ so.pc = "avg"
    /\ so' = [so EXCEPT !.pc = "idle", !.taken = TRUE,
                        !.Avg = IF so.Completed # 0 THEN st.avgTotal \div so.Completed
                                ELSE 0]
    /\ UNCHANGED <<nonStatVars, st, sw>>

(***************************************************************************)
(* Part 7: RWValue[int] of prim/atomics.  The pointer v is the empty       *)
(* sequence when nil and <<x>> when it points to x; mu is 0 when free and  *)
(* the caller's index when held.  A panic that nothing recovers ends the   *)
(* program.                                                                *)
(***************************************************************************)
RWGoroutines == 1 .. rwv.callers

\* var v RWValue[int]: the zero value, nothing stored.
RWValueNew(callers, maxOps) ==
    /\ rwv = [v |-> <<>>, mu |-> 0, panicked |-> FALSE, callers |-> callers,
              maxOps |-> maxOps]
    /\ rwc = [c \in 1 .. callers |->
                [pc |-> "idle", op |-> "none", arg |-> 0, lr |-> "none", ptr |-> <<>>,
                 n |-> 0, err |-> FALSE, lrArgs |-> <<>>, got |-> 0, ops |-> 0]]

\* No RWValue exists.
RWIdle == RWValueNew(0, 0)

\* The zero value of T.
Zero == 0

\* The LoadReplacers of the callers: one returns the successor of the value it is
\* given, one returns an error.  The result is (the new value, whether err != nil).
LoadReplacer(lr, v) ==
    CASE lr = "next" -> <<(v + 1) % (RWMaxVal + 1), FALSE>>
      [] lr = "fail" -> <<Zero, TRUE>>

\* Load: the value v points to, the zero value when v is nil.
Load(v) == IF v = <<>> THEN Zero ELSE v[1]

RWLoad(c) ==
    /\ ~rwv.panicked
    /\ rwc[c].pc = "idle"
    /\ rwc[c].ops < rwv.maxOps
    /\ rwc' = [rwc EXCEPT ![c].op = "Load", ![c].got = Load(rwv.v), ![c].ops = @ + 1]
    /\ UNCHANGED <<nonRWVars, rwv>>

\* Store(v) and LoadReplace(lr) are called: r.mu.Lock() is next.
RWStoreCall(c, x) ==
    /\ ~rwv.panicked
    /\ rwc[c].pc = "idle"
    /\ rwc[c].ops < rwv.maxOps
    /\ rwc' = [rwc EXCEPT ![c].op = "Store", ![c].arg = x, ![c].pc = "lock",
                          ![c].ops = @ + 1]
    /\ UNCHANGED <<nonRWVars, rwv>>

RWLoadReplaceCall(c, lr) ==
    /\ ~rwv.panicked
    /\ rwc[c].pc = "idle"
    /\ rwc[c].ops < rwv.maxOps
    /\ rwc' = [rwc EXCEPT ![c].op = "LoadReplace", ![c].lr = lr, ![c].pc = "lock",
                          ![c].ptr = <<>>, ![c].n = 0, ![c].err = FALSE,
                          ![c].lrArgs = <<>>, ![c].ops = @ + 1]
    /\ UNCHANGED <<nonRWVars, rwv>>

\* r.mu.Lock()
RWLock(c) ==
    /\ ~rwv.panicked
    /\ rwc[c].pc = "lock"
    /\ rwv.mu = 0
    /\ rwv' = [rwv EXCEPT !.mu = c]
    /\ rwc' = [rwc EXCEPT ![c].pc = IF rwc[c].op = "Store" THEN "store" ELSE "load"]
    /\ UNCHANGED nonRWVars

\* Store: r.v.Store(&v)
RWStore(c) ==
    /\ ~rwv.panicked
    /\ rwc[c].pc = "store"
    /\ rwv' = [rwv EXCEPT !.v = <<rwc[c].arg>>]
    /\ rwc' = [rwc EXCEPT ![c].pc = "unlock"]
    /\ UNCHANGED nonRWVars

\* LoadReplace: v := r.v.Load(), and the test v == nil.
RWLoadReplaceLoad(c) ==
    /\ ~rwv.panicked
    /\ rwc[c].pc = "load"
    /\ rwc' = [rwc EXCEPT ![c].ptr = rwv.v,
                          ![c].pc = IF rwv.v = <<>> THEN "zero" ELSE "call"]
    /\ UNCHANGED <<nonRWVars, rwv>>

\* LoadReplace, v == nil: n, err = lr(zero); if err != nil { return err }.
\* Without an error the function goes on to the call below.
RWCallZero(c) ==
    /\ ~rwv.panicked
    /\ rwc[c].pc = "zero"
    /\ LET res == LoadReplacer(rwc[c].lr, Zero) IN
       rwc' = [rwc EXCEPT ![c].n = res[1], ![c].err = res[2],
                          ![c].lrArgs = Append(@, Zero),
                          ![c].pc = IF res[2] THEN "unlock" ELSE "call"]
    /\ UNCHANGED <<nonRWVars, rwv>>

\* LoadReplace: n, err = lr(*v); if err != nil { return err }.  With v nil the
\* dereference panics before lr is called.
RWCallValue(c) ==
    /\ ~rwv.panicked
    /\ rwc[c].pc = "call"
    /\ IF rwc[c].ptr = <<>>
       THEN rwc' = [rwc EXCEPT ![c].pc = "panic"]
       ELSE LET res == LoadReplacer(rwc[c].lr, rwc[c].ptr[1]) IN
            rwc' = [rwc EXCEPT ![c].n = res[1], ![c].err = res[2],
                               ![c].lrArgs = Append(@, rwc[c].ptr[1]),
                               ![c].pc = IF res[2] THEN "unlock" ELSE "replace"]
    /\ UNCHANGED <<nonRWVars, rwv>>

\* LoadReplace: r.v.Store(&n)
RWReplace(c) ==
    /\ ~rwv.panicked
    /\ rwc[c].pc = "replace"
    /\ rwv' = [rwv EXCEPT !.v = <<rwc[c].n>>]
    /\ rwc' = [rwc EXCEPT ![c].pc = "unlock"]
    /\ UNCHANGED nonRWVars

\* defer r.mu.Unlock(), and the return.
RWUnlock(c) ==
    /\ ~rwv.panicked
    /\ rwc[c].pc = "unlock"
    /\ rwv' = [rwv EXCEPT !.mu = 0]
    /\ rwc' = [rwc EXCEPT ![c].pc = "idle"]
    /\ UNCHANGED nonRWVars

\* The panic unwinds LoadReplace: the deferred r.mu.Unlock() runs and the
\* program ends.
RWPanic(c) ==
    /\ ~rwv.panicked
    /\ rwc[c].pc = "panic"
    /\ rwv' = [rwv EXCEPT !.mu = 0, !.panicked = TRUE]
    /\ rwc' = [rwc EXCEPT ![c].pc = "panicked"]
    /\ UNCHANGED nonRWVars

(***************************************************************************)
(* Spec: the runtime with the one-stage state machine of TestOrdered, with *)
(* and without the Ordered option, several groups and producers.           *)
(***************************************************************************)
Init ==
    /\ \E ordered \in BOOLEAN :
        New([sm |-> "OrderedSM", num |-> NumPipelines, ss |-> FALSE, ordered |-> ordered, prior |-> {NoSeen}, pre |-> <<>>,
             submits |-> MaxSubmits, others |-> MaxSubmits, producers |-> NumProducers,
             groups |-> MaxGroups, ctxs |-> NumCtx])
    /\ PoolIdle
    /\ QueueIdle
    /\ GroupIdle
    /\ RegistryIdle
    /\ StatsIdle
    /\ RWIdle

Next ==
    \/ \E h \in Handles : NewRequestGroup(h)
    \/ \E p \in Producers, h \in Handles, c \in Ctxs : SubmitBegin(p, h, c)
    \/ \E p \in Producers : SubmitSend(p)
    \/ \E p \in Producers : SubmitCancelled(p)
    \/ \E c \in Cancellable : Cancel(c)
    \/ \E w \in Workers : RunnerRecv(w)
    \/ \E w \in Workers : RunnerIter(w)
    \/ \E w \in Workers : RunnerStage(w)
    \/ \E w \in Workers : RunnerExitRunning(w)
    \/ \E w \in Workers : RunnerExitCompleted(w)
    \/ \E w \in Workers : RunnerSend(w)
    \/ DemuxRecv
    \/ DemuxSend
    \/ \E h \in Handles : ForwarderRecv(h)
    \/ \E h \in Handles : ForwarderSend(h)
    \/ \E h \in Handles : InOrderRelease(h)
    \/ \E h \in Handles : ForwarderDone(h)
    \/ \E h \in Handles : Consume(h)
    \/ \E h \in Handles : RequestGroupCloseCall(h)
    \/ \E h \in Handles : RequestGroupClose(h)

Spec == Init /\ [][Next]_vars

(***************************************************************************)
(* DagSpec: the runtime with DAGSM of TestDAG, with and without the DAG    *)
(* option: one pipeline (three runners), one producer, one group.          *)
(***************************************************************************)
DagInit ==
    /\ \E ss \in BOOLEAN :
        New([sm |-> "DAGSM", num |-> 1, ss |-> ss, ordered |-> FALSE, prior |-> {NoSeen}, pre |-> <<>>,
             submits |-> DagSubmits, others |-> DagSubmits,
             producers |-> 1, groups |-> 1, ctxs |-> 1])
    /\ PoolIdle
    /\ QueueIdle
    /\ GroupIdle
    /\ RegistryIdle
    /\ StatsIdle
    /\ RWIdle

DagNext ==
    \/ \E h \in Handles : NewRequestGroup(h)
    \/ \E p \in Producers, h \in Handles, c \in Ctxs : SubmitBegin(p, h, c)
    \/ \E p \in Producers : SubmitSend(p)
    \/ \E p \in Producers : SubmitCancelled(p)
    \/ \E c \in Cancellable : Cancel(c)
    \/ \E w \in Workers : RunnerRecv(w)
    \/ \E w \in Workers : RunnerIter(w)
    \/ \E w \in Workers : RunnerStage(w)
    \/ \E w \in Workers : RunnerExitRunning(w)
    \/ \E w \in Workers : RunnerExitCompleted(w)
    \/ \E w \in Workers : RunnerSend(w)
    \/ DemuxRecv
    \/ DemuxSend
    \/ \E h \in Handles : ForwarderRecv(h)
    \/ \E h \in Handles : ForwarderSend(h)
    \/ \E h \in Handles : ForwarderDone(h)
    \/ \E h \in Handles : Consume(h)
    \/ \E h \in Handles : RequestGroupCloseCall(h)
    \/ \E h \in Handles : RequestGroupClose(h)

DagSpec == DagInit /\ [][DagNext]_vars


(***************************************************************************)
(* DagFairSpec: DagSpec with the fairness the Go scheduler gives: every    *)
(* goroutine of the runtime that can take a step eventually takes one, a   *)
(* Submit call at its select statement proceeds when a case is ready, and  *)
(* the consumer keeps receiving from Out().  Nothing is assumed of the     *)
(* callers' decisions to submit, to cancel or to close.                    *)
(***************************************************************************)
RunnerStep(w) ==
    \/ RunnerRecv(w)
    \/ RunnerDone(w)
    \/ RunnerIter(w)
    \/ RunnerStage(w)
    \/ RunnerExitRunning(w)
    \/ RunnerExitCompleted(w)
    \/ RunnerSend(w)

DemuxStep == DemuxRecv \/ DemuxSend \/ DemuxDone

ForwarderStep(h) ==
    ForwarderRecv(h) \/ ForwarderSend(h) \/ InOrderRelease(h) \/ ForwarderDone(h)

SubmitSelect(p) == SubmitSend(p) \/ SubmitCancelled(p)

DagFairness ==
    /\ \A w \in 1 .. numStages("DAGSM") : WF_vars(RunnerStep(w))
    /\ WF_vars(DemuxStep)
    /\ WF_vars(ForwarderStep(1))
    /\ WF_vars(Consume(1))
    /\ WF_vars(SubmitSelect(1))

DagFairSpec == DagInit /\ [][DagNext]_vars /\ DagFairness

(***************************************************************************)
(* StallSpec: one pipeline of the one-stage state machine (one runner),    *)
(* one producer, several groups, no cancellation and no Close; the         *)
(* consumers receive from Out() when they choose to.  StallFairSpec adds   *)
(* the scheduler's fairness and consumers that keep receiving.             *)
(***************************************************************************)
StallInit ==
    /\ New([sm |-> "OrderedSM", num |-> 1, ss |-> FALSE, ordered |-> FALSE, prior |-> {NoSeen}, pre |-> <<>>,
            submits |-> StallSubmits, others |-> StallOthers, producers |-> 1,
            groups |-> StallGroups, ctxs |-> 0])
    /\ PoolIdle
    /\ QueueIdle
    /\ GroupIdle
    /\ RegistryIdle
    /\ StatsIdle
    /\ RWIdle

StallNext ==
    \/ \E h \in Handles : NewRequestGroup(h)
    \/ \E p \in Producers, h \in Handles, c \in Ctxs : SubmitBegin(p, h, c)
    \/ \E p \in Producers : SubmitSend(p)
    \/ \E w \in Workers : RunnerRecv(w)
    \/ \E w \in Workers : RunnerIter(w)
    \/ \E w \in Workers : RunnerStage(w)
    \/ \E w \in Workers : RunnerExitRunning(w)
    \/ \E w \in Workers : RunnerExitCompleted(w)
    \/ \E w \in Workers : RunnerSend(w)
    \/ DemuxRecv
    \/ DemuxSend
    \/ \E h \in Handles : ForwarderRecv(h)
    \/ \E h \in Handles : ForwarderSend(h)
    \/ \E h \in Handles : Consume(h)

StallSpec == StallInit /\ [][StallNext]_vars

StallFairness ==
    /\ WF_vars(RunnerStep(1))
    /\ WF_vars(DemuxStep)
    /\ \A h \in 1 .. StallGroups : WF_vars(ForwarderStep(h))
    /\ \A h \in 1 .. StallGroups : WF_vars(Consume(h))
    /\ WF_vars(SubmitSelect(1))

StallFairSpec == StallInit /\ [][StallNext]_vars /\ StallFairness

(***************************************************************************)
(* CloseSpec: one pipeline of the one-stage state machine, one producer,   *)
(* one group, with RequestGroup.Close and Pipelines.Close.  CloseFairSpec  *)
(* adds the scheduler's fairness, a consumer that keeps receiving and the  *)
(* goroutine of Pipelines.Close.                                           *)
(***************************************************************************)
CloseInit ==
    /\ New([sm |-> "OrderedSM", num |-> 1, ss |-> FALSE, ordered |-> FALSE, prior |-> {NoSeen}, pre |-> <<>>,
            submits |-> CloseSubmits, others |-> CloseSubmits, producers |-> 1,
            groups |-> 1, ctxs |-> 1])
    /\ PoolIdle
    /\ QueueIdle
    /\ GroupIdle
    /\ RegistryIdle
    /\ StatsIdle
    /\ RWIdle

CloseNext ==
    \/ \E h \in Handles : NewRequestGroup(h)
    \/ \E p \in Producers, h \in Handles, c \in Ctxs : SubmitBegin(p, h, c)
    \/ \E p \in Producers : SubmitSend(p)
    \/ \E p \in Producers : SubmitCancelled(p)
    \/ \E c \in Cancellable : Cancel(c)
    \/ \E w \in Workers : RunnerRecv(w)
    \/ \E w \in Workers : RunnerDone(w)
    \/ \E w \in Workers : RunnerIter(w)
    \/ \E w \in Workers : RunnerStage(w)
    \/ \E w \in Workers : RunnerExitRunning(w)
    \/ \E w \in Workers : RunnerExitCompleted(w)
    \/ \E w \in Workers : RunnerSend(w)
    \/ DemuxRecv
    \/ DemuxSend
    \/ DemuxDone
    \/ \E h \in Handles : ForwarderRecv(h)
    \/ \E h \in Handles : ForwarderSend(h)
    \/ \E h \in Handles : ForwarderDone(h)
    \/ \E h \in Handles : Consume(h)
    \/ \E h \in Handles : RequestGroupCloseCall(h)
    \/ \E h \in Handles : RequestGroupClose(h)
    \/ PipelinesClose
    \/ PipelinesCloseWaited

CloseSpec == CloseInit /\ [][CloseNext]_vars

CloseFairness ==
    /\ WF_vars(RunnerStep(1))
    /\ WF_vars(DemuxStep)
    /\ WF_vars(ForwarderStep(1))
    /\ WF_vars(Consume(1))
    /\ WF_vars(SubmitSelect(1))
    /\ WF_vars(RequestGroupClose(1))
    /\ WF_vars(PipelinesCloseWaited)

CloseFairSpec == CloseInit /\ [][CloseNext]_vars /\ CloseFairness

(***************************************************************************)
(* PoolSpec: a limited or a pooled Pool of a size up to PoolSize, with     *)
(* several goroutines that submit jobs with and without NonBlocking, and   *)
(* one that calls Wait and Close.  PoolFairSpec adds the scheduler's       *)
(* fairness; the job functions return.                                     *)
(***************************************************************************)
\* No pipeline runtime is in use.
PipeIdle ==
    New([sm |-> "OrderedSM", num |-> 1, ss |-> FALSE, ordered |-> FALSE, prior |-> {NoSeen}, pre |-> <<>>,
         submits |-> 0, others |-> 0, producers |-> 0, groups |-> 0, ctxs |-> 0])

PoolInit ==
    /\ PipeIdle
    /\ QueueIdle
    /\ GroupIdle
    /\ RegistryIdle
    /\ StatsIdle
    /\ RWIdle
    /\ \E kind \in {"limited", "pooled"}, size \in 1 .. PoolSize :
        PoolNew(kind, size, PoolSubmitters, PoolJobs)

PoolNext ==
    \/ \E s \in Submitters, nb \in BOOLEAN : PoolSubmitBegin(s, nb)
    \/ \E s \in Submitters : LimitedAcquire(s)
    \/ \E s \in Submitters : SubmitWgAdd(s)
    \/ \E s \in Submitters : SubmitRunningAdd(s)
    \/ \E s \in Submitters : LimitedGo(s)
    \/ \E s \in Submitters : LimitedReturn(s)
    \/ \E s \in Submitters : PooledSend(s)
    \/ \E j \in Jobs : JobStart(j)
    \/ \E j \in Jobs : JobReturn(j)
    \/ \E j \in Jobs : JobRunningDec(j)
    \/ \E j \in Jobs : JobWgDone(j)
    \/ \E r \in Runners : PooledRunnerRecv(r)
    \/ \E r \in Runners : PooledRunnerReturn(r)
    \/ \E r \in Runners : PooledRunnerDec(r)
    \/ \E r \in Runners : PooledRunnerWgDone(r)
    \/ \E r \in Runners : PooledRunnerExit(r)
    \/ PoolWaitCall
    \/ PoolWaitReturn
    \/ PoolCloseCall
    \/ PoolCloseWaited
    \/ PoolCloseChan

PoolSpec == PoolInit /\ [][PoolNext]_vars

SubmitStep(s) ==
    \/ LimitedAcquire(s)
    \/ SubmitWgAdd(s)
    \/ SubmitRunningAdd(s)
    \/ LimitedGo(s)
    \/ LimitedReturn(s)
    \/ PooledSend(s)

JobStep(j) == JobStart(j) \/ JobReturn(j) \/ JobRunningDec(j) \/ JobWgDone(j)

PooledRunnerStep(r) ==
    \/ PooledRunnerRecv(r)
    \/ PooledRunnerReturn(r)
    \/ PooledRunnerDec(r)
    \/ PooledRunnerWgDone(r)
    \/ PooledRunnerExit(r)

WaiterStep == PoolWaitReturn \/ PoolCloseWaited \/ PoolCloseChan

PoolFairness ==
    /\ \A s \in 1 .. PoolSubmitters : WF_vars(SubmitStep(s))
    /\ \A j \in 1 .. PoolJobs : WF_vars(j \in Jobs /\ JobStep(j))
    /\ \A r \in 1 .. PoolSize : WF_vars(r \in Runners /\ PooledRunnerStep(r))
    /\ WF_vars(WaiterStep)

PoolFairSpec == PoolInit /\ [][PoolNext]_vars /\ PoolFairness

(***************************************************************************)
(* QueueSpec: a queue with or without a limit, several producers, one      *)
(* consumer.  QueueFairSpec adds the scheduler's fairness for every        *)
(* goroutine; QueueSuspendSpec gives it to the consumer and to every       *)
(* producer but the first, which may be suspended at any point.            *)
(***************************************************************************)
QueueInit ==
    /\ PipeIdle
    /\ PoolIdle
    /\ GroupIdle
    /\ RegistryIdle
    /\ StatsIdle
    /\ RWIdle
    /\ \E size \in 0 .. QueueSize : QueueNew(size, QueueProducers, QueuePushes)

QueueNext ==
    \/ \E p \in QProducers : QueuePushCall(p)
    \/ \E p \in QProducers : QueuePushLimit(p)
    \/ \E p \in QProducers : PushLoadTail(p)
    \/ \E p \in QProducers : PushCas(p)
    \/ \E p \in QProducers : PushStoreTail(p)
    \/ QueueClose
    \/ QueuePopCall
    \/ PopLoadHead
    \/ PopLoadNext
    \/ PopCas
    \/ PopClosedLoad
    \/ PopRelease

QueueSpec == QueueInit /\ [][QueueNext]_vars

\* The steps of a Push call that was made.
PushStep(p) == QueuePushLimit(p) \/ PushLoadTail(p) \/ PushCas(p) \/ PushStoreTail(p)

\* The steps of the consumer, which keeps calling Pop.
PopStep ==
    QueuePopCall \/ PopLoadHead \/ PopLoadNext \/ PopCas \/ PopClosedLoad \/ PopRelease

QueueFairness ==
    /\ \A p \in 1 .. QueueProducers : WF_vars(PushStep(p))
    /\ WF_vars(PopStep)

QueueFairSpec == QueueInit /\ [][QueueNext]_vars /\ QueueFairness

QueueSuspendFairness ==
    /\ \A p \in 2 .. QueueProducers : WF_vars(PushStep(p))
    /\ WF_vars(PopStep)

QueueSuspendSpec == QueueInit /\ [][QueueNext]_vars /\ QueueSuspendFairness

(***************************************************************************)
(* GroupSpec: a Group without a Pool, with a limited or with a pooled      *)
(* Pool, with or without CancelOnErr, and functions of every outcome.      *)
(* GroupFairSpec adds the scheduler's fairness.                            *)
(***************************************************************************)
GroupInit ==
    /\ PipeIdle
    /\ PoolIdle
    /\ QueueIdle
    /\ RegistryIdle
    /\ StatsIdle
    /\ RWIdle
    /\ \E kind \in {"none", "limited", "pooled"}, size \in 1 .. GroupPoolSize,
          cancelOnErr \in BOOLEAN, external \in BOOLEAN,
          outs \in [1 .. GroupFuncs -> Outcomes] :
            /\ kind = "none" => size = 1
            /\ GroupNew(kind, size, cancelOnErr, external, outs)

GroupNext ==
    \/ GroupGo
    \/ GroupLimitedAcquire
    \/ GroupLimitedSpawn
    \/ GroupPooledSend
    \/ \E r \in GRunners : GroupRunnerRecv(r)
    \/ \E r \in GRunners : GroupRunnerDone(r)
    \/ \E i \in Funcs : FuncStart(i)
    \/ \E i \in Funcs : FuncCall(i)
    \/ \E i \in Funcs : ApplyErrLoad(i)
    \/ \E i \in Funcs : ApplyErrCas(i)
    \/ \E i \in Funcs : FuncCancel(i)
    \/ \E i \in Funcs : FuncWgDone(i)
    \/ \E i \in Funcs : FuncCountDec(i)
    \/ GroupCtxCancel
    \/ GroupWaitCall
    \/ GroupWaitWaited
    \/ GroupWaitReset

GroupSpec == GroupInit /\ [][GroupNext]_vars

\* The steps of the function i.
FuncStep(i) ==
    \/ FuncStart(i) \/ FuncCall(i) \/ ApplyErrLoad(i) \/ ApplyErrCas(i)
    \/ FuncCancel(i) \/ FuncWgDone(i) \/ FuncCountDec(i)

\* The steps of the Pool's goroutines.
GroupPoolStep == \E r \in GRunners : GroupRunnerRecv(r) \/ GroupRunnerDone(r)

\* The steps inside Go and Wait.
GroupCallerStep ==
    \/ GroupLimitedAcquire \/ GroupLimitedSpawn \/ GroupPooledSend
    \/ GroupWaitWaited \/ GroupWaitReset

GroupFairness ==
    /\ \A i \in 1 .. GroupFuncs : WF_vars(FuncStep(i))
    /\ WF_vars(GroupPoolStep)
    /\ WF_vars(GroupCallerStep)

GroupFairSpec == GroupInit /\ [][GroupNext]_vars /\ GroupFairness

(***************************************************************************)
(* RegSpec: pools created under names taken from two base names, closed    *)
(* or not, and one enumeration of the registry.  RegFairSpec adds the      *)
(* scheduler's fairness for New, for the goroutine of Pools and for the    *)
(* caller that ranges over the channel.                                    *)
(***************************************************************************)
BaseNames == {<<"a">>, <<"b">>}

RegInit ==
    /\ PipeIdle
    /\ PoolIdle
    /\ QueueIdle
    /\ GroupIdle
    /\ StatsIdle
    /\ RWIdle
    /\ \E names \in [1 .. RegPools -> BaseNames] : RegistryNew(names)

RegNext ==
    \/ \E p \in RPools : RegNewCall(p)
    \/ \E p \in RPools : RegRegister(p)
    \/ \E p \in RPools : RegRename(p)
    \/ \E p \in RPools : RegUnregister(p)
    \/ PoolsCall
    \/ PoolsRLock
    \/ PoolsSend
    \/ PoolsRUnlock
    \/ PoolsRange

RegSpec == RegInit /\ [][RegNext]_vars

\* The steps of New once it is called.
RegNewStep(p) == RegRegister(p) \/ RegRename(p)

\* The steps of the goroutine of Pools.
PoolsStep == PoolsRLock \/ PoolsSend \/ PoolsRUnlock

RegFairness ==
    /\ \A p \in 1 .. RegPools : WF_vars(RegNewStep(p))
    /\ WF_vars(PoolsStep)
    /\ WF_vars(PoolsRange)

RegFairSpec == RegInit /\ [][RegNext]_vars /\ RegFairness

(***************************************************************************)
(* StatSpec: runners that update the statistics and an observer that       *)
(* calls Stats() again and again.  StatFairSpec adds the scheduler's       *)
(* fairness.                                                               *)
(***************************************************************************)
StatInit ==
    /\ PipeIdle
    /\ PoolIdle
    /\ QueueIdle
    /\ GroupIdle
    /\ RegistryIdle
    /\ StatsNew(StatRunners, StatReqs, StatMaxTime)
    /\ RWIdle

StatNext ==
    \/ \E w \in SRunners : StatEnter(w)
    \/ \E w \in SRunners : StatExitRunning(w)
    \/ \E w \in SRunners : StatExitCompleted(w)
    \/ \E w \in SRunners : SetLoad(w)
    \/ \E w \in SRunners : SetCas(w)
    \/ \E w \in SRunners : StatAvgAdd(w)
    \/ ToStatsRunning
    \/ ToStatsCompleted
    \/ ToStatsMin
    \/ ToStatsMax
    \/ ToStatsAvg

StatSpec == StatInit /\ [][StatNext]_vars

StatFairness ==
    /\ \A w \in 1 .. StatRunners :
          WF_vars(StatExitRunning(w) \/ StatExitCompleted(w) \/ SetLoad(w) \/ SetCas(w)
                    \/ StatAvgAdd(w))
    /\ WF_vars(ToStatsCompleted \/ ToStatsMin \/ ToStatsMax \/ ToStatsAvg)

StatFairSpec == StatInit /\ [][StatNext]_vars /\ StatFairness

(***************************************************************************)
(* ResubmitSpec: one pipeline over DAGSM created without the DAG option,   *)
(* whose callers submit Request values they built or received from the     *)
(* Out() of a pipeline created with the DAG option.                        *)
(***************************************************************************)
ResubmitInit ==
    /\ New([sm |-> "DAGSM", num |-> 1, ss |-> FALSE, ordered |-> FALSE,
             prior |-> PriorHistories("DAGSM"), pre |-> <<>>,
             submits |-> ResubmitSubmits, others |-> ResubmitSubmits,
             producers |-> 1, groups |-> 1, ctxs |-> 1])
    /\ PoolIdle
    /\ QueueIdle
    /\ GroupIdle
    /\ RegistryIdle
    /\ StatsIdle
    /\ RWIdle

ResubmitSpec == ResubmitInit /\ [][DagNext]_vars


(***************************************************************************)
(* PreSpec: one pipeline over StepSM (two runners) with the pre-processors *)
(* check and note given with the PreProcessors option, one producer and    *)
(* one group, no cancellation.  PreFairSpec adds the scheduler's fairness  *)
(* and a consumer that keeps receiving.                                    *)
(***************************************************************************)
PreInit ==
    /\ New([sm |-> "StepSM", num |-> 1, ss |-> FALSE, ordered |-> FALSE,
             prior |-> {NoSeen}, pre |-> <<"check", "note">>,
             submits |-> PreSubmits, others |-> PreSubmits,
             producers |-> 1, groups |-> 1, ctxs |-> 0])
    /\ PoolIdle
    /\ QueueIdle
    /\ GroupIdle
    /\ RegistryIdle
    /\ StatsIdle
    /\ RWIdle

PreNext ==
    \/ \E h \in Handles : NewRequestGroup(h)
    \/ \E p \in Producers, h \in Handles, c \in Ctxs : SubmitBegin(p, h, c)
    \/ \E p \in Producers : SubmitSend(p)
    \/ \E w \in Workers : RunnerRecv(w)
    \/ \E w \in Workers : RunnerIter(w)
    \/ \E w \in Workers : RunnerStage(w)
    \/ \E w \in Workers : RunnerExitRunning(w)
    \/ \E w \in Workers : RunnerExitCompleted(w)
    \/ \E w \in Workers : RunnerSend(w)
    \/ DemuxRecv
    \/ DemuxSend
    \/ \E h \in Handles : ForwarderRecv(h)
    \/ \E h \in Handles : ForwarderSend(h)
    \/ \E h \in Handles : ForwarderDone(h)
    \/ \E h \in Handles : Consume(h)
    \/ \E h \in Handles : RequestGroupCloseCall(h)
    \/ \E h \in Handles : RequestGroupClose(h)

PreSpec == PreInit /\ [][PreNext]_vars

PreFairness ==
    /\ \A w \in 1 .. numStages("StepSM") : WF_vars(RunnerStep(w))
    /\ WF_vars(DemuxStep)
    /\ WF_vars(ForwarderStep(1))
    /\ WF_vars(Consume(1))
    /\ WF_vars(SubmitSelect(1))

PreFairSpec == PreInit /\ [][PreNext]_vars /\ PreFairness


(***************************************************************************)
(* RWSpec: goroutines that call Load, Store and LoadReplace on one         *)
(* RWValue[int] that starts as the zero value.                             *)
(***************************************************************************)
RWInit ==
    /\ PipeIdle
    /\ PoolIdle
    /\ QueueIdle
    /\ GroupIdle
    /\ RegistryIdle
    /\ StatsIdle
    /\ RWValueNew(RWCallers, RWOps)

RWNext ==
    \/ \E c \in RWGoroutines : RWLoad(c)
    \/ \E c \in RWGoroutines, x \in 0 .. RWMaxVal : RWStoreCall(c, x)
    \/ \E c \in RWGoroutines, lr \in {"next", "fail"} : RWLoadReplaceCall(c, lr)
    \/ \E c \in RWGoroutines : RWLock(c)
    \/ \E c \in RWGoroutines : RWStore(c)
    \/ \E c \in RWGoroutines : RWLoadReplaceLoad(c)
    \/ \E c \in RWGoroutines : RWCallZero(c)
    \/ \E c \in RWGoroutines : RWCallValue(c)
    \/ \E c \in RWGoroutines : RWReplace(c)
    \/ \E c \in RWGoroutines : RWUnlock(c)
    \/ \E c \in RWGoroutines : RWPanic(c)

RWSpec == RWInit /\ [][RWNext]_vars


(***************************************************************************)
(* What the claims speak about.                                            *)
(***************************************************************************)
\* The numbers (uid + 1) of the Submit calls on group h that returned nil.
Accepted(h) == {i \in DOMAIN results : results[i].h = h /\ results[i].res = Nil}

\* The Submit calls on group h.
Calls(h) == {i \in DOMAIN results : results[i].h = h}

\* A Submit call on group h is running.
Pending(h) == \E i \in Calls(h) : results[i].res = "pending"

\* The consumer of group h has seen Out() closed: the channel is closed and empty.
OutClosedSeen(h) == rg[h].userClosed /\ rg[h].user = <<>>

\* The requests received from Out() of group h, as Submit call numbers.
Received(h) == {got[h][i].uid + 1 : i \in DOMAIN got[h]}

\* The requests in the hands of the runners.
InRunner == {wk[w].req : w \in Workers} \ {NoReq}

\* The requests that a runner has sent on p.out.
Downstream ==
    Range(out)
        \cup (IF dmx.req = NoReq THEN {} ELSE {dmx.req})
        \cup UNION {Range(rg[h].out) \cup Range(rg[h].user) \cup Range(got[h])
                        \cup fwd[h].held
                        \cup (IF fwd[h].req = NoReq THEN {} ELSE {fwd[h].req})
                     : h \in Handles}

\* The requests that processReq has returned.
Returned ==
    {wk[w].req : w \in {v \in Workers : wk[v].pc \in {"exit1", "exit2", "send"}}}
        \cup Downstream

\* The requests received from any Out().
Delivered == UNION {Range(got[h]) : h \in Handles}

\* The requests of group h that Submit handed to the runtime and the consumer has
\* not received yet.
Outstanding(h) == Cardinality(Accepted(h)) - Len(got[h])

\* Every place between Submit and the consumer of group h holds a request:
\* the buffer of p.in, every runner (at its send on p.out), the buffer of p.out,
\* the demux (at its send to group h), the buffers of the group's two channels
\* and the group's forwarder (at its send on r.user).
Full(h) ==
    /\ ~CanSend(in)
    /\ \A w \in Workers : wk[w].pc = "send"
    /\ ~CanSend(out)
    /\ dmx.pc = "send" /\ dmx.req.h = h
    /\ ~CanSend(rg[h].out)
    /\ fwd[h].pc = "send"
    /\ ~CanSend(rg[h].user)

\* The jobs whose job function is executing.
Executing ==
    {j \in Jobs : jobs[j].g = "run" \/ \E r \in Runners : rn[r].pc = "run" /\ rn[r].job = j}

\* No job was submitted with the NonBlocking option.
NoNonBlocking == \A j \in Jobs : ~jobs[j].nb

\* No Submit call is running and every request handed to the runtime was received.
Drained ==
    \A h \in Handles : ~Pending(h) /\ Received(h) = Accepted(h)

\* Every request that is past the demux on the way to the consumer of group h.
Routed(h) ==
    Range(rg[h].out) \cup Range(rg[h].user) \cup Range(got[h]) \cup fwd[h].held
        \cup (IF fwd[h].req = NoReq THEN {} ELSE {fwd[h].req})

----------------------------------------------------------------------------
\* C1 (as claimed): the requests received from a group's Out() are Submit calls on
\* the group that returned nil, each received once, and when Out() is seen closed
\* every Submit call that returned nil has been received.
C1_Completeness ==
    \A h \in Handles :
        /\ Received(h) \subseteq Accepted(h)
        /\ Cardinality(Received(h)) = Len(got[h])
        /\ OutClosedSeen(h) => Received(h) = Accepted(h)

----------------------------------------------------------------------------
\* C2: with the Ordered option the item numbers received from a group's Out() are
\* 0, 1, 2, ... in this order, and when every Submit call on the group returned nil
\* and Out() is seen closed, all K of them were received.
C2_Ordered ==
    cfg.ordered =>
        \A h \in Handles :
            /\ \A i \in DOMAIN got[h] : got[h][i].itemNum = i - 1
            /\ (OutClosedSeen(h) /\ Accepted(h) = Calls(h))
                    => Len(got[h]) = Cardinality(Calls(h))

\* C2 witness: a group received items 0 and 1 in order up to the close of Out(),
\* although item 1 reached the reassembler first and was held.
C2_Witness ==
    /\ cfg.ordered
    /\ \E h \in Handles :
        /\ OutClosedSeen(h)
        /\ Len(got[h]) = 2
        /\ got[h][2].waited

----------------------------------------------------------------------------
\* C3: every request on the way to a group's consumer, or received by it, was
\* submitted through that group, and the ids of the groups are pairwise distinct.
C3_Isolation ==
    /\ \A h \in Handles : \A r \in Routed(h) : r.h = h
    /\ \A h1, h2 \in Handles :
        (h1 # h2 /\ rg[h1].state # "none" /\ rg[h2].state # "none")
            => rg[h1].id # rg[h2].id

\* C3 witness: two groups have each received a request of their own.
C3_Witness ==
    \E h1, h2 \in Handles :
        h1 # h2 /\ got[h1] # <<>> /\ got[h2] # <<>>

----------------------------------------------------------------------------
\* C10 (as claimed): whenever no Submit call on a group is running, the item
\* numbers of the requests that entered the runtime are 0 .. m-1 without a gap.
C10_Dense ==
    \A h \in Handles :
        ~Pending(h) =>
            {results[i].itemNum : i \in Accepted(h)} = 0 .. (Cardinality(Accepted(h)) - 1)


----------------------------------------------------------------------------
\* C4: with the DAG option no stage is invoked twice for a request; a request
\* carries a cyclic error exactly when the stage selected as next had already
\* been invoked for it (in DAGSM: the requests with an even number, unless
\* their context was cancelled first), and every request is still received
\* from Out().
C4_DAG ==
    cfg.ss =>
        /\ \A r \in InRunner \cup Returned : ~r.repeated
        /\ \A r \in Returned :
            /\ IsErrCyclic(r.Err) => (r.Next # Nil /\ r.Next \in r.calls)
            /\ r.Err = Nil => r.Next = Nil
            /\ r.Num % 2 = 1 => ~IsErrCyclic(r.Err)
            /\ r.Num % 2 = 0 => (IsErrCyclic(r.Err) \/ r.Err = ErrCtx)
        /\ \A h \in Handles : OutClosedSeen(h) => Received(h) = Accepted(h)

\* C4 witness: Out() is seen closed after a request with a cyclic error, for which
\* Start and RouteBackToStart ran once each, and one without error were received.
C4_Witness ==
    /\ cfg.ss
    /\ OutClosedSeen(1)
    /\ \E r1, r2 \in Range(got[1]) :
        /\ IsErrCyclic(r1.Err)
        /\ r1.calls = {"Start", "RouteBackToStart"}
        /\ r2.Err = Nil
        /\ r2.calls = {"Start", "End"}

----------------------------------------------------------------------------
\* C5: a request carries the context error only if its context is cancelled; once
\* a request has an error no stage is invoked for it; and an iteration of the
\* stage loop that begins with the context cancelled invokes no stage and ends
\* the request with the context's error.
C5_State ==
    /\ \A r \in InRunner \cup Returned : r.Err = ErrCtx => r.Ctx \in cancelled
    /\ \A w \in Workers : wk[w].req # NoReq /\ wk[w].req.Err # Nil
            => wk[w].pc \in {"exit1", "exit2", "send"}
    /\ \A h \in Handles : (OutClosedSeen(h) /\ ~cfg.ordered) => Received(h) = Accepted(h)

C5_Step ==
    \A w \in 1 .. numStages("DAGSM") :
        (wk[w].pc = "iter" /\ wk[w].req.Ctx \in cancelled /\ wk'[w] # wk[w])
            => /\ wk'[w].pc = "exit1"
               /\ wk'[w].req.Err = ErrCtx
               /\ wk'[w].req.calls = wk[w].req.calls

----------------------------------------------------------------------------
\* C8: a request is in the hands of at most one runner and in no channel at the
\* same time, and all the stages invoked for it were invoked by one runner.
C8_OneRunner ==
    /\ \A w1, w2 \in Workers :
        (w1 # w2 /\ wk[w1].req # NoReq /\ wk[w2].req # NoReq)
            => wk[w1].req.uid # wk[w2].req.uid
    /\ \A r \in InRunner :
        /\ \A q \in Range(in) \cup Downstream : q.uid # r.uid
        /\ \A p \in Producers : prod[p].req = NoReq \/ prod[p].req.uid # r.uid
    /\ \A r \in InRunner \cup Returned : Cardinality(r.by) <= 1

\* C8 witness: two runners execute different stages for different requests at once.
C8_Witness ==
    \E w1, w2 \in Workers :
        /\ wk[w1].pc = "stage" /\ wk[w2].pc = "stage"
        /\ wk[w1].stage = "Start" /\ wk[w2].stage = "End"
        /\ wk[w1].req.uid # wk[w2].req.uid
        /\ wk[w2].req.by = {w2}

----------------------------------------------------------------------------
\* C9 (as claimed): without the DAG option every request submitted to DAGSM with a
\* context that is never cancelled is eventually received from Out() with a nil
\* error.
C9_Completes ==
    \A i \in 1 .. (DagSubmits + 1) :
        (~cfg.ss /\ i \in DOMAIN results /\ results[i].res = Nil /\ results[i].Ctx = 0)
            ~> (\E r \in Delivered : r.uid = i - 1 /\ r.Err = Nil)

\* C9 (amended): without the DAG option no request gets a cyclic error; a request
\* that processReq returns without the context error has an odd number, a nil
\* error and exactly the two stage calls Start and End; and once a runner has
\* taken a request with an odd number and a context that is never cancelled,
\* processReq returns it.
C9_State ==
    ~cfg.ss =>
        \A r \in Returned :
            /\ ~IsErrCyclic(r.Err)
            /\ r.Err # ErrCtx =>
                /\ r.Num % 2 = 1
                /\ r.Err = Nil
                /\ r.calls = {"Start", "End"}
                /\ ~r.repeated

C9_OddCompletes ==
    /\ []C9_State
    /\ \A w \in 1 .. numStages("DAGSM") :
        (~cfg.ss /\ wk[w].pc = "iter" /\ wk[w].req.Num % 2 = 1 /\ wk[w].req.Ctx = 0)
            ~> (wk[w].pc = "exit1" /\ wk[w].req.Err = Nil)

\* C9 witness: without the DAG option a request with an odd number was received
\* with a nil error while a runner repeats stages for a request with an even one.
C9_Witness ==
    /\ ~cfg.ss
    /\ \E r \in Delivered : r.Num % 2 = 1 /\ r.Err = Nil /\ r.calls = {"Start", "End"}
    /\ \E r \in InRunner : r.Num % 2 = 0 /\ r.repeated

----------------------------------------------------------------------------
C6_Bound ==
    \A h \in Handles : Outstanding(h) <= 4 * ChanCap + Cardinality(Workers) + 2

\* While every place towards the consumer of a group is taken and the consumer
\* does not receive, they all stay taken and no Submit call on any group returns.
C6_Step ==
    \A h \in 1 .. StallGroups :
        (Full(h) /\ got'[h] = got[h])
            => /\ Full(h)'
               /\ \A i \in DOMAIN results : results'[i].res = results[i].res

----------------------------------------------------------------------------
\* C7 (as claimed): once Pipelines.Close was called and every request submitted
\* before was received, p.out is eventually closed and StateMachine.Close has
\* been called exactly once.
C7_Closes ==
    (closer # "none" /\ Drained) ~> (outClosed /\ smClosed = 1)

----------------------------------------------------------------------------
\* C11: the item number of a Submit call on a group is the number of Submit calls
\* on the same group that began before it: the numbers of a group are pairwise
\* distinct, start at 0, grow with the order of the calls, and do not depend on
\* the calls on other groups.
C11_ItemNumbers ==
    \A h \in Handles : \A i \in Calls(h) :
        results[i].itemNum = Cardinality({j \in Calls(h) : j < i})

\* C11 witness: two Submit calls on one group run at the same time and hold the
\* item numbers 0 and 1.
C11_Witness ==
    \E p1, p2 \in Producers :
        /\ prod[p1].pc = "select" /\ prod[p2].pc = "select"
        /\ prod[p1].req.h = prod[p2].req.h
        /\ prod[p1].req.itemNum = 0 /\ prod[p2].req.itemNum = 1

----------------------------------------------------------------------------
\* C12 (as claimed): in a limited pool of size n with no NonBlocking job, at most
\* n job functions execute at the same time.
C12_Limit ==
    (pool.kind = "limited" /\ NoNonBlocking) => Cardinality(Executing) <= pool.size

----------------------------------------------------------------------------
\* C13: in a pooled pool of size n with no NonBlocking job at most n job functions
\* execute at the same time; a Submit at its send does not return in a step taken
\* while every runner is busy and the job channel is full; and it does return.
C13_State ==
    (pool.kind = "pooled" /\ NoNonBlocking) => Cardinality(Executing) <= pool.size

C13_Step ==
    \A s \in 1 .. PoolSubmitters :
        (/\ pool.kind = "pooled"
         /\ sub[s].pc = "send"
         /\ ~jobs[sub[s].job].nb
         /\ \A r \in Runners : rn[r].pc # "recv"
         /\ Len(pool.queue) >= QueueCap)
            => sub'[s] = sub[s]

C13_Pooled ==
    /\ []C13_State
    /\ [][C13_Step]_vars
    /\ \A s \in 1 .. PoolSubmitters :
        (pool.kind = "pooled" /\ sub[s].pc = "send") ~> (sub[s].pc = "idle")

\* C13 witness: a Submit without NonBlocking waits at its send while the runner
\* executes a job and another job fills the channel.
C13_Witness ==
    /\ pool.kind = "pooled"
    /\ NoNonBlocking
    /\ Cardinality(Executing) = pool.size
    /\ Len(pool.queue) >= QueueCap
    /\ \E s \in Submitters : sub[s].pc = "send"

----------------------------------------------------------------------------
\* C14: for both pools no job function starts twice, every job whose Submit
\* returned nil is executed, and when Wait has returned every job whose Submit
\* had returned before the Wait call has finished.
C14_State ==
    /\ \A j \in Jobs : jobs[j].starts <= 1 /\ jobs[j].ends <= jobs[j].starts
    /\ (waiter.pc = "returned" /\ waiter.op = "Wait")
            => \A j \in waiter.snap : jobs[j].ends = 1

C14_Once ==
    /\ []C14_State
    /\ \A j \in 1 .. PoolJobs :
        (j \in Jobs /\ jobs[j].res = Nil) ~> (j \in Jobs /\ jobs[j].ends = 1)

\* C14 witness: Wait has returned after two jobs, submitted before it was called,
\* were executed.
C14_Witness ==
    /\ waiter.pc = "returned"
    /\ waiter.op = "Wait"
    /\ Cardinality(waiter.snap) >= 2
    /\ \A j \in waiter.snap : jobs[j].starts = 1

----------------------------------------------------------------------------
\* C15: a pooled Submit with NonBlocking can always take its next step; the job
\* for which it started an extra goroutine starts at most once and is executed;
\* p.running counts every job that was started and has not returned; and Wait
\* and Close return only after the jobs submitted before have finished.
C15_State ==
    pool.kind = "pooled" =>
        /\ \A s \in Submitters :
            (sub[s].pc # "idle" /\ jobs[sub[s].job].nb) => ENABLED SubmitStep(s)
        /\ \A j \in Jobs : jobs[j].extra => (jobs[j].nb /\ jobs[j].starts <= 1)
        /\ pool.running >= Cardinality({j \in Jobs : jobs[j].g = "spawned"} \cup Executing)
        /\ waiter.pc = "returned" => \A j \in waiter.snap : jobs[j].ends = 1

C15_NonBlocking ==
    /\ []C15_State
    /\ \A j \in 1 .. PoolJobs :
        (j \in Jobs /\ jobs[j].extra) ~> (j \in Jobs /\ jobs[j].ends = 1)

\* C15 witness: while the runner executed a job and another filled the channel,
\* a NonBlocking Submit returned; its job ran on an extra goroutine, and the
\* Wait called after that Submit has returned.
C15_Witness ==
    /\ pool.kind = "pooled"
    /\ waiter.pc = "returned"
    /\ \E j \in waiter.snap :
        /\ jobs[j].extra
        /\ jobs[j].starts = 1
        /\ \A i \in Jobs : i < j => (~jobs[i].extra /\ jobs[i].ends = 1)
        /\ j >= 3

----------------------------------------------------------------------------
\* C16: when Close has passed its wait, every job submitted before has finished;
\* p.queue is closed only with the outstanding count at zero; and after the
\* close of a pooled pool every runner goroutine ends.
C16_State ==
    /\ (waiter.op = "Close" /\ waiter.pc \in {"closing", "returned"})
            => /\ waiter.snap = Jobs
               /\ \A j \in Jobs : jobs[j].ends = 1
    /\ pool.closed => (pool.wg = 0 /\ pool.queue = <<>>)

C16_Close ==
    /\ []C16_State
    /\ (pool.kind = "pooled" /\ pool.closed) ~> (\A r \in Runners : rn[r].pc = "exit")

\* C16 witness: Close of a pooled pool has returned after two jobs, and the
\* runner goroutine has ended.
C16_Witness ==
    /\ pool.kind = "pooled"
    /\ waiter.op = "Close" /\ waiter.pc = "returned"
    /\ pool.closed
    /\ Cardinality(waiter.snap) >= 2
    /\ \A r \in Runners : rn[r].pc = "exit"


(***************************************************************************)
(* The queue: what the claims speak about.                                 *)
(***************************************************************************)
\* The values whose Push call has returned.
PushReturned == {<<p, k>> : p \in QProducers, k \in 1 .. QueuePushes} \cap
                {v \in (1 .. QueueProducers) \X (1 .. QueuePushes) : v[2] <= qp[v[1]].done}

\* The values Pop has returned with ok = true, in the order of the returns.
PoppedOk == {i \in DOMAIN qc.popped : qc.popped[i][2]}

PoppedValues == {qc.popped[i][1] : i \in PoppedOk}

\* C17: when Pop has returned ok = false (Close having been called after
\* all Push calls returned), every pushed item has been returned by a Pop
\* with ok = true before.
C17_NoItemLeft == SawNotOk => PushReturned \subseteq PoppedValues

\* The values Push has been called with.
PushCalled ==
    {v \in (1 .. QueueProducers) \X (1 .. QueuePushes) :
        v[2] <= qp[v[1]].done + (IF qp[v[1]].pc = "idle" THEN 0 ELSE 1)}

\* The k-th node behind node i of the list (0 if there is none).
RECURSIVE NthNext(_, _, _)
NthNext(nodes, i, k) ==
    IF k = 0 \/ i = 0 THEN i ELSE NthNext(nodes, nodes[i].next, k - 1)

\* C18: the values Pop returned with ok = true were pushed, none was
\* returned twice, they come in the order in which they were linked into
\* the list, and those of one producer in the order the producer pushed them.
C18_Fifo ==
    /\ PoppedValues \subseteq PushCalled
    /\ \A i, j \in PoppedOk : i # j => qc.popped[i][1] # qc.popped[j][1]
    /\ \A i \in PoppedOk :
          /\ NthNext(qu.nodes, 1, i) # 0
          /\ qc.popped[i][1] = qu.nodes[NthNext(qu.nodes, 1, i)].val
    /\ \A i, j \in PoppedOk :
          (i < j /\ qc.popped[i][1][1] = qc.popped[j][1][1])
             => qc.popped[i][1][2] < qc.popped[j][1][2]

\* Pop returned three values, two of one producer and one of the other.
C18_Witness ==
    /\ Cardinality(PoppedOk) = 3
    /\ \E i, j, k \in PoppedOk :
          /\ i < j
          /\ qc.popped[i][1][1] = qc.popped[j][1][1]
          /\ qc.popped[k][1][1] # qc.popped[i][1][1]

\* C19, the states: a queue made with size c > 0 never holds more than c
\* items, and a Push called when it held c items has passed the limit only
\* if Pop has removed an item since the call.
C19_State ==
    qu.size > 0 =>
       /\ Held <= qu.size
       /\ \A p \in QProducers :
             (qp[p].full /\ qp[p].pc \in {"load", "cas", "store"})
                => qc.removed > qp[p].removedAtCall

\* C19, the return: a Pop running on the closed, empty queue returns
\* (zero, false).
C19_Returns ==
    (qu.size > 0 /\ qu.closed /\ Held = 0 /\ qc.pc = "head") ~> SawNotOk

\* C19: for a queue created with capacity c > 0 the items held never exceed
\* c, a Push invoked while it holds c items does not complete until a Pop
\* has removed an item, and after Close a Pop on the empty queue returns
\* (zero, false) without blocking.
C19_Capacity == []C19_State /\ C19_Returns

\* A Push called on the full queue is past the limit and about to return.
C19_Witness ==
    /\ qu.size > 0
    /\ \E p \in QProducers : qp[p].full /\ qp[p].pc = "store"

\* C20: on a queue without limit, the Push of a producer that keeps taking
\* steps returns, whatever the other producers do, also when the first
\* producer is suspended inside its own Push.
C20_WaitFree ==
    \A p \in 2 .. QueueProducers :
        (qu.size = 0 /\ qp[p].pc \in {"load", "cas", "store"}) ~> (qp[p].pc = "idle")

(***************************************************************************)
(* The wait group: what the claims speak about.                            *)
(***************************************************************************)
\* The functions passed to Go.
Launched == 1 .. gc.calls

\* Function i is not running and will not run: f returned, or the
\* goroutine found the context done and did not call f.
FuncOver(i) == gf[i].pc \in {"load", "cas", "cancel", "wgdone", "countdec", "finished"}

\* Wait has passed w.wg.Wait().
WaitOver == gc.pc \in {"reset", "returned"}

\* C21, the states: Wait has returned only if every function passed to Go
\* is over.
C21_State == WaitOver => \A i \in Launched : FuncOver(i)

\* C21, the return: Wait returns once the functions are over.
C21_Returns == (gc.pc = "wait" /\ \A i \in Launched : FuncOver(i)) ~> (gc.pc = "returned")

\* C21: Wait returns only after every function passed to Go before the
\* Wait call has returned, and it does return once they all have, without
\* a Pool and with a limited or a pooled Pool.
C21_Wait == []C21_State /\ C21_Returns

\* Wait was called while none of the functions had returned, the Group has
\* a pooled Pool, and Wait has returned.
C21_Witness ==
    /\ gc.pc = "returned"
    /\ gc.calls = GroupFuncs
    /\ gc.seen = {}
    /\ grp.pool = "pooled"

\* The errors stored by applyErr that are not context errors, by position
\* in the order of the stores.
CapturedNonCtx == {k \in DOMAIN grp.captured : ~IsContextErr(grp.captured[k])}

\* C22: when Wait has returned and launched functions returned non-context
\* errors, Wait's error is the one captured first; Wait's error is a
\* context error only if no non-context error was captured.
C22_First ==
    WaitOver =>
       /\ CapturedNonCtx # {} =>
              Unwrapped(gc.res) = Unwrapped(grp.captured[Min(CapturedNonCtx)])
       /\ IsContextErr(gc.res) => CapturedNonCtx = {}

\* C23: when Wait has returned, the Unwrap chain of its error contains the
\* first captured error and every non-context error captured after it.
C23_Chain ==
    WaitOver =>
       \A k \in CapturedNonCtx : Unwrapped(grp.captured[k]) \subseteq Unwrapped(gc.res)

\* The launched functions whose f returns its own error.
Erroring == {i \in Launched : gf[i].out = "err"}

\* CancelOnErr was set, nobody else cancels the context, and exactly one
\* launched function returns a non-context error.
OneError ==
    /\ grp.cancelSet
    /\ ~grp.external
    /\ Cardinality(Erroring) = 1

\* C24, the states: in that case a function invokes the cancel function
\* only when the error is recorded, Wait returns that error, and when Wait
\* has returned the cancel function is cleared.
C24_State ==
    (OneError /\ gc.pc # "go" /\ gc.pc # "submit" /\ gc.pc # "spawn") =>
       /\ \A k \in DOMAIN grp.cancels : \A i \in Erroring : grp.cancels[k] = <<i>>
       /\ WaitOver => (\A i \in Erroring : gc.res = <<i>>)
       /\ gc.pc = "returned" => ~grp.CancelOnErr

\* C24, the termination as claimed: in that case Wait returns.
C24_TerminatesAlways == (OneError /\ gc.pc = "wait") ~> (gc.pc = "returned")

C24_Terminates ==
    (OneError /\ gc.pc = "wait" /\ \A i \in Erroring : gf[i].pc # "queued")
        ~> (gc.pc = "returned")

NoneClosed == \A p \in RPools : rp[p].pc # "closed"

\* The k-th name made from a base name: the base name, then the base name
\* with the suffixes -1, -2, ...
SuffixedName(base, k) == IF k = 1 THEN base ELSE base \o <<"-">> \o Itoa(k - 1)

\* The pools created under the base name and registered.
DoneWith(base) == {p \in RPools : rp[p].base = base /\ rp[p].pc = "done"}

\* C25, the names: while no pool is closed, the k pools registered under
\* one base name carry the first k names made from it, each a different one.
C25_State ==
    NoneClosed =>
       \A base \in BaseNames :
          /\ \A p \in DoneWith(base) : <<rp[p].name, p>> \in reg.registry
          /\ {rp[p].name : p \in DoneWith(base)} =
                {SuffixedName(base, k) : k \in 1 .. Cardinality(DoneWith(base))}
          /\ \A p, q \in DoneWith(base) : p # q => rp[p].name # rp[q].name

\* C25, the termination: while no pool is closed, New returns.
C25_Terminates ==
    \A p \in 1 .. RegPools :
        (rp[p].pc = "register" /\ NoneClosed) ~> (rp[p].pc = "done" \/ ~NoneClosed)

\* C25: creating k pools with one valid base name, none closed in between,
\* terminates, and the pools are registered under k different names: the
\* base name, then the base name with the suffixes -1, -2, and so on.
C25_Names == []C25_State /\ C25_Terminates

\* C26, what is received: the caller of Pools() receives pools of the
\* registry as it was when the enumeration began, none twice, and the
\* registry is locked only while the goroutine of Pools is sending.
C26_State ==
    /\ Range(re.received) \subseteq re.snapshot
    /\ \A i, j \in DOMAIN re.received : i # j => re.received[i] # re.received[j]
    /\ re.pc \in {"none", "rlock", "exited"} => reg.mu = "free"

\* C26, the end: the caller that ranges over Pools() has received every
\* registered pool, its loop has ended and the registry is unlocked.
C26_Ends ==
    (re.consumer = "range")
        ~> (re.consumer = "ended" /\ Range(re.received) = re.snapshot /\ reg.mu = "free")

\* C26: an enumeration through Pools() that the caller reads to the end
\* terminates: each registered pool is received exactly once, then the
\* sequence ends and the registry is available to Register and Unregister.
C26_Enumeration == []C26_State /\ C26_Ends

(***************************************************************************)
(* The statistics: what the claims speak about.                            *)
(***************************************************************************)
\* C27: the sum of the running and the completed counters never decreases
\* from one moment to the next, also while a request exits a worker.
C27_Monotonic == [][running' + completed' >= running + completed]_vars

\* The number of requests received from all Out() channels.
RECURSIVE SumGot(_)
SumGot(H) == IF H = {} THEN 0
             ELSE LET h == CHOOSE x \in H : TRUE IN Len(got[h]) + SumGot(H \ {h})

Consumed == SumGot(Handles)

\* The requests that the in-order forwarder of a group still held when it
\* finished: nobody will receive them.
Dropped == UNION {IF fwd[h].pc = "done" THEN fwd[h].held ELSE {} : h \in Handles}

\* A request is on its way: in a Submit call, in p.in, in a runner, or
\* past the runners and not yet received.
InFlight ==
    \/ \E h \in Handles : Pending(h)
    \/ in # <<>>
    \/ InRunner # {}
    \/ (Downstream \ Delivered) \ Dropped # {}

\* C29: the completed counter is at least the number of requests received
\* from all Out() channels, and when no request is in flight it is that
\* number and the running counter is 0.
C29_Completed ==
    /\ completed >= Consumed
    /\ ~InFlight => (completed = Consumed /\ running = 0)

\* C28: every snapshot returned by Stats() with Completed > 0 has
\* Min <= Avg <= Max, also when it is taken while runners update the counters.
C28_Snapshot ==
    (so.taken /\ so.Completed > 0) => (so.Min <= so.Avg /\ so.Avg <= so.Max)

\* No runner is inside calcExitStats.
NoneExiting == \A w \in SRunners : sw[w].pc \in {"idle", "proc"}

\* The largest element of a set of numbers.
Max(S) == CHOOSE x \in S : \A y \in S : x >= y

\* C30: after at least one request has completed, with every update done,
\* the min counter that Stats() reads is the smallest run time of the
\* completed requests and the max counter the largest.
C30_MinMax ==
    (st.times # {} /\ NoneExiting) => (st.min = Min(st.times) /\ st.max = Max(st.times))

\* C30, the half that holds: the max counter is the largest run time.
C30_MaxOnly == (st.times # {} /\ NoneExiting) => st.max = Max(st.times)


(***************************************************************************)
(* C31.  A pipeline created without DAG() never sets a cyclic error on a   *)
(* request it processes, whether the submitted Request value was freshly   *)
(* built or was received from a pipeline's Out() before.                   *)
(***************************************************************************)
InPipeline ==
    {wk[w].req : w \in {v \in Workers : wk[v].req # NoReq}}
        \cup Range(out) \cup UNION {Range(got[h]) : h \in Handles}

C31_NoCyclicWithoutDag ==
    ~cfg.ss => \A r \in InPipeline : ~IsErrCyclic(r.Err)


(***************************************************************************)
(* C32.  RequestGroup.Close() has not returned while a request of the      *)
(* group that Submit accepted is still unread by the owner: when Close has *)
(* returned, the owner has received every accepted request from Out().     *)
(***************************************************************************)
Unread(h) == Cardinality(Accepted(h)) - Len(got[h])

C32_CloseAfterPulled ==
    \A h \in Handles : rg[h].state = "closed" => Unread(h) = 0


(***************************************************************************)
(* C33.  A request whose Submit returned a context error was not written   *)
(* to the input channel and is nowhere between there and Out(), and it     *)
(* counts in neither WaitGroup: p.wg counts the Submit calls that are      *)
(* running or returned nil, and the group's r.wg counts those of the group *)
(* less the requests its forwarding goroutine has taken from r.out; so the *)
(* counter Close waits for is zero when only refused requests are left.    *)
(***************************************************************************)
Refused == {i \in DOMAIN results : results[i].res = ErrCtx}

Counted(h) == {i \in DOMAIN results : results[i].h = h /\ results[i].res # ErrCtx}

\* The requests between Submit's send on p.in and the owner.
Everywhere ==
    Range(in) \cup InPipeline \cup {dmx.req} \cup
    UNION {Range(rg[h].out) \cup Range(rg[h].user) \cup {fwd[h].req} \cup fwd[h].held
              : h \in Handles}

\* The requests the forwarding goroutine of the group took from r.out.
Taken(h) ==
    Len(got[h]) + Len(rg[h].user) + Cardinality(fwd[h].held)
        + (IF fwd[h].req # NoReq THEN 1 ELSE 0)

C33_RefusedLeavesNoTrace ==
    /\ \A i \in Refused : \A r \in Everywhere : r.uid # i - 1
    /\ pwg = Cardinality({i \in DOMAIN results : results[i].res # ErrCtx})
    /\ \A h \in Handles : rg[h].wg = Cardinality(Counted(h)) - Taken(h)

C33_CloseDoesNotWait ==
    \A h \in 1 .. 1 :
        (h \in Handles /\ rg[h].state = "closing" /\ Refused # {} /\ Counted(h) = {})
            ~> (h \in Handles /\ rg[h].state = "closed")

C33_Refused == []C33_RefusedLeavesNoTrace /\ C33_CloseDoesNotWait

C33_Witness ==
    \E h \in Handles :
        /\ rg[h].state = "closed"
        /\ \E i \in Refused : results[i].h = h
        /\ Counted(h) = {}


(***************************************************************************)
(* C34.  As claimed: at every moment Pool.Running() equals the number of   *)
(* jobs whose function is executing.  As the code has it: Running() counts *)
(* the jobs between Submit's running.Add(1) and the running.Add(-1) that   *)
(* follows the job function's return, so it is at least the number of jobs *)
(* executing, it never exceeds the WaitGroup's counter, and it is 0 when   *)
(* Wait() returns.                                                         *)
(***************************************************************************)
\* Submit has done p.running.Add(1) for job j.
RunningAdded(j) ==
    \/ jobs[j].res = Nil
    \/ \E s \in Submitters : sub[s].job = j /\ sub[s].pc \in {"go", "ret", "send"}

\* p.running.Add(-1) was done for job j.
RunningRemoved(j) ==
    /\ jobs[j].ends >= 1
    /\ jobs[j].g # "dec"
    /\ ~\E r \in Runners : rn[r].job = j /\ rn[r].pc = "dec"

CountedRunning == {j \in Jobs : RunningAdded(j) /\ ~RunningRemoved(j)}

C34_AsClaimed == pool.running = Cardinality(Executing)

C34_State ==
    /\ pool.running = Cardinality(CountedRunning)
    /\ Executing \subseteq CountedRunning
    /\ pool.running <= pool.wg

C34_Running ==
    /\ []C34_State
    /\ [][waiter.pc = "wait" /\ waiter'.pc # "wait" => pool'.running = 0]_vars

\* Wait has returned with jobs done, after Running() exceeded the jobs executing.
C34_Witness ==
    /\ waiter.pc = "returned"
    /\ pool.running = 0
    /\ \E j \in Jobs : jobs[j].ends = 1


(***************************************************************************)
(* C35.  Pool.Len() returns the size the pool was created with, whatever   *)
(* jobs were submitted and have completed.                                 *)
(***************************************************************************)
C35_LenIsSize == pool.kind # "none" => PoolLen = pool.size


(***************************************************************************)
(* C36.  Group.Running() is the number of functions launched with Go that  *)
(* have not yet returned, and it is 0 after Wait has returned.             *)
(***************************************************************************)
\* Group.Running: int(w.count.Load())
GroupRunning == grp.count

C36_Running ==
    /\ gc.pc = "returned" => GroupRunning = 0
    /\ GroupRunning >= 0


(***************************************************************************)
(* C37.  LoadReplace called when no value has been stored passes the zero  *)
(* value to the LoadReplacer, calls it once, and stores its result; if the *)
(* LoadReplacer returns an error the stored value is left unchanged and    *)
(* the error is returned.  The call returns: it does not panic.            *)
(***************************************************************************)
\* LoadReplace of caller c found no value stored and is about to return.
ReturningOnNil(c) ==
    rwc[c].op = "LoadReplace" /\ rwc[c].pc = "unlock" /\ rwc[c].ptr = <<>>

C37_LoadReplaceOnNil ==
    \A c \in RWGoroutines :
        /\ rwc[c].pc \notin {"panic", "panicked"}
        /\ ReturningOnNil(c) =>
                /\ rwc[c].lrArgs = <<Zero>>
                /\ rwc[c].err => rwv.v = <<>>
                /\ ~rwc[c].err => rwv.v = <<LoadReplacer(rwc[c].lr, Zero)[1]>>

\* The part on errors alone.
C37_ErrorLeavesValue ==
    \A c \in RWGoroutines :
        (rwc[c].op = "LoadReplace" /\ rwc[c].pc = "unlock" /\ rwc[c].err)
            => rwv.v = rwc[c].ptr


(***************************************************************************)
(* C38.  resetNext runs before every user pre-processor at every stage     *)
(* iteration and Next is nil when the stage is called, so a stage that     *)
(* returns without assigning Next ends the request: no stage is called a   *)
(* second time, and a request without error ends after the stage Last.     *)
(***************************************************************************)
\* The requests in the hands of the runners and behind them.
Processed ==
    InPipeline \cup {r \in Everywhere : r # NoReq /\ r \notin Range(in)}

C38_ResetNext ==
    /\ \A w \in Workers : wk[w].pc = "stage" => wk[w].req.Next = Nil
    /\ \A r \in Processed :
        /\ ~r.repeated
        /\ \A i \in DOMAIN r.pre : r.pre[i][3] = Nil
    /\ \A r \in Delivered : r.Err = Nil => r.calls = {"Start", "Last"} /\ r.Next = Nil

\* A request was delivered after Last returned it without assigning Next.
C38_Witness ==
    \E r \in Delivered :
        /\ r.Err = Nil
        /\ "Last" \in r.calls
        /\ \E i \in DOMAIN r.pre : r.pre[i][2] = "Last"


(***************************************************************************)
(* C39.  Once a stage or a pre-processor has set Err on a request, no      *)
(* further pre-processor or stage is invoked for it, also when Next is     *)
(* set; the request is delivered exactly once on its group's Out() with    *)
(* that Err; and every other accepted request is processed and delivered   *)
(* as well.                                                                *)
(***************************************************************************)
\* The pre-processors and stages invoked for r at the given stage.
PreAt(r, stage) == {r.pre[i][1] : i \in {k \in DOMAIN r.pre : r.pre[k][2] = stage}}

C39_State ==
    /\ \A r \in Processed :
        /\ r.Err = ErrStage =>
                /\ r.Next = "Last"
                /\ r.calls = {"Start"}
                /\ PreAt(r, "Last") = {}
        /\ r.Err = ErrPre =>
                /\ r.calls = {"Start"}
                /\ PreAt(r, "Last") = {"check"}
    /\ \A h \in Handles : \A i, j \in DOMAIN got[h] :
            got[h][i].uid = got[h][j].uid => i = j
    /\ \A r \in Delivered :
            r.Err = (CASE r.Num % 3 = 1 -> ErrStage
                       [] r.Num % 3 = 2 -> ErrPre
                       [] OTHER -> Nil)

C39_Delivery ==
    \A u \in 0 .. PreSubmits - 1 :
        (u + 1 \in DOMAIN results /\ results[u + 1].res = Nil)
            ~> (\E r \in Delivered : r.uid = u)

C39_ErrEndsRequest == []C39_State /\ C39_Delivery

\* Both kinds of error were delivered, and a request submitted after them.
C39_Witness ==
    /\ \E r \in Delivered : r.Err = ErrStage
    /\ \E r \in Delivered : r.Err = ErrPre
    /\ \E r \in Delivered : r.Err = Nil /\ r.uid = 3


(***************************************************************************)
(* C40.  With every Submit call on a group returned before Close is called *)
(* on it, the demux never meets a request whose group number has no        *)
(* registered receiver, so its error callback is never invoked: when the   *)
(* receiver has been removed, no request of the group is on its way to the *)
(* demux or in the demux's hand.                                           *)
(***************************************************************************)
\* The requests that have not yet passed through the demux.
BeforeDemux ==
    Range(in) \cup {wk[w].req : w \in {v \in Workers : wk[v].req # NoReq}}
        \cup Range(out) \cup ({dmx.req} \ {NoReq})

C40_ReceiverOutlivesRequests ==
    /\ ~fatal
    /\ \A r \in BeforeDemux : r.groupNum \in DOMAIN receivers
    /\ \A h \in Handles : rg[h].state = "closed" => \A r \in BeforeDemux : r.h # h

\* A group that had requests accepted was closed while another group still has
\* requests before the demux.
C40_Witness ==
    \E h \in Handles :
        /\ rg[h].state = "closed"
        /\ Accepted(h) # {}
        /\ BeforeDemux # {}

====
